---- MODULE Spec2Model ----
(***************************************************************************)
(* Order checkout / cancellation workflow of the resin-art store backend.  *)
(*                                                                         *)
(* The database is the record db (one field per table that the handlers    *)
(* touch).  Every request handler runs in a request slot; each ORM call of *)
(* a handler is one atomic step, so the calls of concurrent handlers       *)
(* interleave freely.  A prisma.$transaction(async tx => ...) block is one *)
(* step: its statements run in order on a working copy of db and the copy  *)
(* replaces db on commit.  The statements of the modelled transactions     *)
(* only write (relative increments, inserts, deletes by key) and take row  *)
(* locks that are held until commit, so their effect is the one they have  *)
(* at commit time; a statement that raises (unique key, missing row) or a  *)
(* failure injected before any statement (deadlock victim, timeout, lost   *)
(* connection) rolls the transaction back.                                 *)
(***************************************************************************)
EXTENDS Integers, Sequences, FiniteSets, TLC

\* ------------------------------------------------------------------ bounds
MaxOrders == 2           \* createOrder calls that reach the order-number step
MaxCancels == 2          \* cancelOrder calls that reach the transaction
MaxStatusUpdates == 1    \* updateOrderStatus calls that reach the transaction
MaxStock == 3            \* stock values an administrator sets lie in -MaxStock..MaxStock
MaxPayments == 2         \* payments other than cash on delivery per order
MaxSignups == 2          \* accounts signup creates
MaxTokens == 2           \* reset tokens forgotPassword issues
MaxTime == 3             \* the clock, in units of five minutes

\* ------------------------------------------------------------ the universe
\* the requests that can be in flight together
Slots == {1, 2}
Products == {"A", "B"}
Users == {"u1", "u2"}
\* users.role (migration.sql:10): u2 is the seeded administrator
Role == [u \in Users |-> IF u = "u2" THEN "ADMIN" ELSE "USER"]
\* products.created_by_id: the administrator created the products
CreatedBy == [p \in Products |-> "u2"]
None == "none"
CurrentYear == 2026
\* products.stock when the store opens
InitStock == [p \in Products |-> IF p = "A" THEN 2 ELSE 1]

Statuses == {"PENDING", "CONFIRMED", "PROCESSING", "SHIPPED", "DELIVERED", "CANCELLED"}
Reasons == {None, "damaged in warehouse"}

VARIABLES
  db,        \* the committed database
  pc,        \* pc[r]: where the handler of slot r stands
  loc,       \* loc[r]: the handler's request inputs and local variables
  last,      \* the response being sent (handler, caller, inputs, HTTP status,
             \* message); NoResp once it is on the wire
  nCancel,   \* cancelOrder transactions started
  nStatus    \* updateOrderStatus transactions started

vars == <<db, pc, loc, last, nCancel, nStatus>>

\* ------------------------------------------------------- partial functions
Without(f, k) == [x \in DOMAIN f \ {k} |-> f[x]]
With(f, k, v) == [x \in DOMAIN f \cup {k} |-> IF x = k THEN v ELSE f[x]]
NoItems == [p \in Products |-> 0]
Lines(items) == {p \in Products : items[p] > 0}

\* --------------------------------------------------------- order numbering
RECURSIVE Digits(_)
\* String(n): the decimal digits of n, most significant first
Digits(n) == IF n < 10 THEN <<n>> ELSE Append(Digits(n \div 10), n % 10)

RECURSIVE PadStart(_, _, _)
\* s.padStart(len, fill): pads on the left, never truncates
PadStart(s, len, fill) == IF Len(s) >= len THEN s ELSE PadStart(<<fill>> \o s, len, fill)

\* `RA-${year}-${String(count + 1).padStart(6, '0')}`
FormatOrderNumber(year, count) == <<"RA", year>> \o PadStart(Digits(count + 1), 6, 0)

\* prisma.order.count({ where: { createdAt: { gte: new Date(`${year}-01-01`) } } })
CountOrdersOfYear(d, year) == Cardinality({o \in DOMAIN d.orders : d.orders[o].createdYear >= year})

generateOrderNumber(d) == FormatOrderNumber(CurrentYear, CountOrdersOfYear(d, CurrentYear))

\* -------------------------------------------------------------- statements
\* A statement result: the database after it and the Prisma error code
\* ("none" when it succeeded).
Ok(d) == [db |-> d, code |-> None]
Err(d, c) == [db |-> d, code |-> c]

\* tx.order.create({ data: { orderNumber, userId, status: 'PENDING', items: { create } } })
\* OrderCreateUnchecked: the insert itself, as it would be without the unique index
OrderCreateUnchecked(d, s) ==
  Ok([d EXCEPT !.orders = With(@, d.nextOrderId,
                      [orderNumber |-> s.orderNumber, userId |-> s.userId,
                       status |-> "PENDING", items |-> s.items,
                       createdYear |-> CurrentYear,
                       confirmedAt |-> FALSE, shippedAt |-> FALSE,
                       deliveredAt |-> FALSE, cancelledAt |-> FALSE,
                       cancelReason |-> None]),
              !.tracking = With(@, d.nextOrderId, <<>>),
              !.nextOrderId = @ + 1])

\* orders_order_number_key rejects a number that an order already carries.
OrderCreate(d, s) ==
  IF \E o \in DOMAIN d.orders : d.orders[o].orderNumber = s.orderNumber
  THEN Err(d, "P2002")
  ELSE OrderCreateUnchecked(d, s)

\* tx.product.update({ where: { id }, data: { stock: { decrement | increment } } })
\* UPDATE products SET stock = stock + delta: the column is a signed INTEGER.
ProductStockAdd(d, s) == Ok([d EXCEPT !.stock[s.productId] = @ + s.delta])

\* an orderTracking.create that overwrites the order's history with the new event
TrackingCreateReplaces(d, s) ==
  IF s.orderId \notin DOMAIN d.orders
  THEN Err(d, "P2003")
  ELSE Ok([d EXCEPT !.tracking[s.orderId] =
                <<[status |-> s.status, description |-> s.description,
                   updatedBy |-> s.updatedBy]>>])

\* tx.orderTracking.create({ data: { orderId, status, description, updatedBy } })
TrackingCreate(d, s) ==
  IF s.orderId \notin DOMAIN d.orders
  THEN Err(d, "P2003")
  ELSE Ok([d EXCEPT !.tracking[s.orderId] =
                Append(@, [status |-> s.status, description |-> s.description,
                           updatedBy |-> s.updatedBy])])

\* tx.cartItem.deleteMany({ where: { cartId } })
CartItemDeleteMany(d, s) ==
  IF s.cartId \in DOMAIN d.cartItems
  THEN Ok([d EXCEPT !.cartItems[s.cartId] = NoItems])
  ELSE Ok(d)

\* a cart.delete that empties the cart and leaves its row
CartDeleteKeepsRow(d, s) ==
  IF s.cartId \notin DOMAIN d.carts
  THEN Err(d, "P2025")
  ELSE Ok([d EXCEPT !.cartItems[s.cartId] = NoItems])

\* a cart.delete that does nothing when the row is gone, as a deleteMany would
CartDeleteIfExists(d, s) ==
  Ok([d EXCEPT !.carts = Without(@, s.cartId), !.cartItems = Without(@, s.cartId)])

\* tx.cart.delete({ where: { id } }); cart_items_cart_id_fkey is ON DELETE CASCADE
CartDelete(d, s) ==
  IF s.cartId \notin DOMAIN d.carts
  THEN Err(d, "P2025")
  ELSE Ok([d EXCEPT !.carts = Without(@, s.cartId),
                    !.cartItems = Without(@, s.cartId)])

\* tx.order.update({ where: { id }, data })
OrderUpdate(d, s) ==
  IF s.orderId \notin DOMAIN d.orders
  THEN Err(d, "P2025")
  ELSE Ok([d EXCEPT !.orders[s.orderId] =
             [f \in DOMAIN @ |-> IF f \in DOMAIN s.data THEN s.data[f] ELSE @[f]]])

\* tx.delivery.upsert({ where: { orderId }, create, update })
\* deliveries_tracking_number_key: no two deliveries share a tracking number.
DeliveryUpsert(d, s) ==
  LET old == IF s.orderId \in DOMAIN d.delivery THEN d.delivery[s.orderId] ELSE None
      row == IF s.orderId \in DOMAIN d.delivery
             THEN [status |-> IF s.newStatus = "DELIVERED" THEN "DELIVERED" ELSE "SHIPPED",
                   trackingNumber |-> IF s.trackingNumber # None THEN s.trackingNumber
                                      ELSE old.trackingNumber,
                   courierCompany |-> IF s.courierCompany # None THEN s.courierCompany
                                      ELSE old.courierCompany,
                   actualDelivery |-> IF s.newStatus = "DELIVERED" THEN TRUE
                                      ELSE old.actualDelivery]
             ELSE [status |-> IF s.newStatus = "SHIPPED" THEN "SHIPPED" ELSE "PENDING",
                   trackingNumber |-> s.trackingNumber,
                   courierCompany |-> s.courierCompany,
                   actualDelivery |-> FALSE]
  IN IF s.orderId \notin DOMAIN d.orders THEN Err(d, "P2003")
     ELSE IF row.trackingNumber # None
             /\ \E o \in DOMAIN d.delivery \ {s.orderId} :
                   d.delivery[o].trackingNumber = row.trackingNumber
          THEN Err(d, "P2002")
          ELSE Ok([d EXCEPT !.delivery = With(@, s.orderId, row)])

\* the orders of user u
OrdersOf(d, u) == {o \in DOMAIN d.orders : d.orders[o].userId = u}

\* prisma.orderTracking.deleteMany({ where: { order: { userId } } })
TrackingDeleteMany(d, s) ==
  Ok([d EXCEPT !.tracking = [o \in DOMAIN @ |->
                               IF o \in OrdersOf(d, s.userId) THEN <<>> ELSE @[o]]])

\* prisma.orderItem.deleteMany({ where: { order: { userId } } })
OrderItemDeleteMany(d, s) ==
  Ok([d EXCEPT !.orders = [o \in DOMAIN @ |->
                             IF o \in OrdersOf(d, s.userId)
                             THEN [@[o] EXCEPT !.items = NoItems] ELSE @[o]]])

\* prisma.delivery.deleteMany({ where: { order: { userId } } })
DeliveryDeleteMany(d, s) ==
  Ok([d EXCEPT !.delivery = [o \in DOMAIN @ \ OrdersOf(d, s.userId) |-> @[o]]])

\* prisma.order.deleteMany({ where: { userId } }); order_tracking_order_id_fkey
\* is ON DELETE CASCADE, deliveries_order_id_fkey is ON DELETE RESTRICT
OrderDeleteMany(d, s) ==
  IF \E o \in OrdersOf(d, s.userId) : o \in DOMAIN d.delivery
  THEN Err(d, "P2003")
  ELSE Ok([d EXCEPT !.orders = [o \in DOMAIN @ \ OrdersOf(d, s.userId) |-> @[o]],
                    !.tracking = [o \in DOMAIN @ \ OrdersOf(d, s.userId) |-> @[o]]])

\* prisma.cartItem.deleteMany({ where: { cart: { userId } } })
CartItemDeleteManyOfUser(d, s) ==
  Ok([d EXCEPT !.cartItems = [c \in DOMAIN @ |->
                                IF d.carts[c] = s.userId THEN NoItems ELSE @[c]]])

\* prisma.cart.deleteMany({ where: { userId } })
CartDeleteMany(d, s) ==
  LET gone == {c \in DOMAIN d.carts : d.carts[c] = s.userId}
  IN Ok([d EXCEPT !.carts = [c \in DOMAIN @ \ gone |-> @[c]],
                  !.cartItems = [c \in DOMAIN @ \ gone |-> @[c]]])

\* prisma.user.delete({ where: { id } }); products_created_by_id_fkey and
\* orders_user_id_fkey are ON DELETE RESTRICT
UserDelete(d, s) ==
  IF s.userId \notin DOMAIN d.users THEN Err(d, "P2025")
  ELSE IF (\E p \in Products : CreatedBy[p] = s.userId) \/ OrdersOf(d, s.userId) # {}
  THEN Err(d, "P2003")
  ELSE Ok([d EXCEPT !.users = Without(@, s.userId)])

\* tx.product.update({ where: { id }, data: { stock: newStock } })
ProductSetStock(d, s) ==
  IF s.productId \notin d.products THEN Err(d, "P2025")
  ELSE Ok([d EXCEPT !.stock[s.productId] = s.stock])

\* prisma.orderItem.deleteMany({ where: { productId } })
OrderItemDeleteManyOfProduct(d, p) ==
  Ok([d EXCEPT !.orders = [o \in DOMAIN @ |-> [@[o] EXCEPT !.items[p] = 0]]])

\* prisma.cartItem.deleteMany({ where: { productId } })
CartItemDeleteManyOfProduct(d, p) ==
  Ok([d EXCEPT !.cartItems = [c \in DOMAIN @ |-> [@[c] EXCEPT ![p] = 0]]])

\* prisma.product.delete({ where: { id } }); order_items_product_id_fkey and
\* cart_items_product_id_fkey are ON DELETE RESTRICT
ProductDelete(d, p) ==
  IF p \notin d.products THEN Err(d, "P2025")
  ELSE IF (\E o \in DOMAIN d.orders : d.orders[o].items[p] > 0)
          \/ (\E c \in DOMAIN d.cartItems : d.cartItems[c][p] > 0)
  THEN Err(d, "P2003")
  ELSE Ok([d EXCEPT !.products = @ \ {p}])

\* prisma.product.update({ where: { id }, data: { isActive: false } })
ProductDeactivate(d, p) ==
  IF p \notin d.products THEN Err(d, "P2025")
  ELSE Ok([d EXCEPT !.isActive[p] = FALSE])

ExecStmt(d, s) ==
  CASE s.op = "order.create" -> OrderCreate(d, s)
    [] s.op = "product.setStock" -> ProductSetStock(d, s)
    [] s.op = "orderTracking.deleteMany" -> TrackingDeleteMany(d, s)
    [] s.op = "orderItem.deleteMany" -> OrderItemDeleteMany(d, s)
    [] s.op = "delivery.deleteMany" -> DeliveryDeleteMany(d, s)
    [] s.op = "order.deleteMany" -> OrderDeleteMany(d, s)
    [] s.op = "cartItem.deleteManyOfUser" -> CartItemDeleteManyOfUser(d, s)
    [] s.op = "cart.deleteMany" -> CartDeleteMany(d, s)
    [] s.op = "user.delete" -> UserDelete(d, s)
    [] s.op = "product.update" -> ProductStockAdd(d, s)
    [] s.op = "orderTracking.create" -> TrackingCreate(d, s)
    [] s.op = "cartItem.deleteMany" -> CartItemDeleteMany(d, s)
    [] s.op = "cart.delete" -> CartDelete(d, s)
    [] s.op = "order.update" -> OrderUpdate(d, s)
    [] s.op = "delivery.upsert" -> DeliveryUpsert(d, s)

\* ------------------------------------------------------------ transactions
RECURSIVE ExecFrom(_, _, _, _)
\* Runs stmts[i..] on the working copy w; failAt is the statement before which
\* the engine aborts the transaction (Len(stmts) + 1: it never does).
ExecFrom(w, stmts, i, failAt) ==
  IF i > Len(stmts) THEN Ok(w)
  ELSE IF i = failAt THEN Err(w, "P2034")
  ELSE LET res == ExecStmt(w, stmts[i])
       IN IF res.code # None THEN Err(w, res.code)
          ELSE ExecFrom(res.db, stmts, i + 1, failAt)

\* a failed block whose statements were not bound to the transaction: the
\* writes made before the failure stay
TxRollbackKeepsWrites(committed, work) == work

\* What a rolled-back transaction leaves: the database as it was committed.
TxRollback(committed, work) == committed

\* prisma.$transaction(async (tx) => { ... }): all statements or none
Transaction(d, stmts, failAt) ==
  LET res == ExecFrom(d, stmts, 1, failAt)
  IN IF res.code = None THEN res ELSE Err(TxRollback(d, res.db), res.code)

\* sendEmail: a failure of transport.sendMail is logged and rethrown as an Error
sendEmail(transportFails) == IF transportFails THEN "Error" ELSE None

\* a notification block that lets the error of sendEmail through
NotifyRethrows(thrown) == thrown

\* try { ... await sendEmail(...) } catch (emailError) { console.error(...) }:
\* what the handler's notification block lets through to the handler
Notify(thrown) == None

\* the status of the response after the notification block: the handler's own
\* res.status(ok) unless an error got through to errorHandler
StatusAfterNotify(thrown, ok) == IF thrown = None THEN ok ELSE 500

\* errorHandler: the status the handler set (500 when it set none), overridden
\* for the Prisma codes the handler knows
ErrorStatus(code, preset) ==
  CASE code = "P2002" -> 400
    [] code = "P2025" -> 404
    [] code = "P2003" -> 400
    [] OTHER -> IF preset = 200 THEN 500 ELSE preset

\* ------------------------------------------------------------------- state
LocInit ==
  [handler |-> None, user |-> None, cartId |-> 0, items |-> NoItems,
   orderNumber |-> <<>>, orderId |-> 0, reason |-> None, statusRead |-> None,
   ownerRead |-> None, newStatus |-> None, trackingNumber |-> None,
   courierCompany |-> None, productId |-> None, quantity |-> 0,
   stockRead |-> 0, existingQty |-> 0, hasShipping |-> FALSE,
   emailFailed |-> FALSE, operation |-> None, newStock |-> 0, force |-> FALSE,
   target |-> None, method |-> None, email |-> <<>>, role |-> None,
   password |-> <<>>, token |-> 0, expire |-> 0]

NoResp == [handler |-> None, user |-> None, orderId |-> 0, reason |-> None,
           hasShipping |-> FALSE, emailFailed |-> FALSE, newStatus |-> None,
           status |-> 0, message |-> <<>>]

Init ==
  /\ db = [users |-> [u \in Users |-> "ACTIVE"],
           products |-> Products,
           stock |-> InitStock,
           isActive |-> [p \in Products |-> TRUE],
           carts |-> <<>>, cartItems |-> <<>>, nextCartId |-> 1,
           orders |-> <<>>, tracking |-> <<>>, nextOrderId |-> 1,
           delivery |-> <<>>]
  /\ pc = [r \in Slots |-> "idle"]
  /\ loc = [r \in Slots |-> LocInit]
  /\ last = NoResp
  /\ nCancel = 0
  /\ nStatus = 0

\* a new request takes the first idle slot (the slots are interchangeable)
Free(r) == pc[r] = "idle" /\ \A s \in Slots : s < r => pc[s] # "idle"

\* res.status(...).json(...): the response leaves.  It is fixed by the handler's
\* last database write; what runs between that write and res.json (the user
\* lookup, the notification e-mail) writes none of the modelled tables
ResponseSent ==
  /\ last # NoResp
  /\ last' = NoResp
  /\ UNCHANGED <<db, pc, loc, nCancel, nStatus>>

\* the handler of slot r ends with a response
Finish(r, l, st, msg) ==
  /\ pc' = [pc EXCEPT ![r] = "idle"]
  /\ loc' = [loc EXCEPT ![r] = LocInit]
  /\ last' = [handler |-> l.handler, user |-> l.user, orderId |-> l.orderId,
              reason |-> l.reason, hasShipping |-> l.hasShipping,
              emailFailed |-> l.emailFailed, newStatus |-> l.newStatus,
              status |-> st, message |-> msg]

\* the handler of slot r goes on to its next ORM call
Goto(r, l, next) ==
  /\ pc' = [pc EXCEPT ![r] = next]
  /\ loc' = [loc EXCEPT ![r] = l]
  /\ UNCHANGED last

\* prisma.cart.findFirst({ where: { userId, isActive: true } }): carts_user_id_is_active_key
\* leaves at most one such row
ActiveCarts(d, u) == {c \in DOMAIN d.carts : d.carts[c] = u}
FindActiveCart(d, u) == IF ActiveCarts(d, u) = {} THEN 0 ELSE CHOOSE c \in ActiveCarts(d, u) : TRUE

\* ------------------------------------------------------------ cart handlers
\* prisma.cart.create({ data: { userId, isActive: true } })
\* CartCreateUnchecked: the insert itself, as it would be without the unique index
CartCreateUnchecked(d, u) ==
  Ok([d EXCEPT !.carts = With(@, d.nextCartId, u),
               !.cartItems = With(@, d.nextCartId, NoItems),
               !.nextCartId = @ + 1])

CartCreate(d, u) ==
  IF ActiveCarts(d, u) # {}
  THEN Err(d, "P2002")
  ELSE Ok([d EXCEPT !.carts = With(@, d.nextCartId, u),
                    !.cartItems = With(@, d.nextCartId, NoItems),
                    !.nextCartId = @ + 1])

\* addToCart: validation of the body and prisma.product.findUnique
AddToCart_FindProduct(r, u, p, q) ==
  /\ Free(r)
  /\ LET l == [LocInit EXCEPT !.handler = "addToCart", !.user = u, !.productId = p,
                              !.quantity = q, !.stockRead = db.stock[p]]
     IN IF ~db.isActive[p]
        THEN Finish(r, l, 400, <<"This product is no longer available">>)
        ELSE IF db.stock[p] < q
        THEN Finish(r, l, 400, <<"Insufficient stock", db.stock[p]>>)
        ELSE Goto(r, l, "ac_findCart")
  /\ UNCHANGED <<db, nCancel, nStatus>>

\* getOrCreateCart: prisma.cart.findFirst
GetOrCreateCart_Find(r, found, missing) ==
  /\ LET c == FindActiveCart(db, loc[r].user)
     IN IF c # 0 THEN Goto(r, [loc[r] EXCEPT !.cartId = c], found)
        ELSE Goto(r, loc[r], missing)
  /\ UNCHANGED <<db, nCancel, nStatus>>

\* getOrCreateCart: prisma.cart.create
GetOrCreateCart_Create(r, found) ==
  LET res == CartCreate(db, loc[r].user)
  IN /\ db' = res.db
     /\ IF res.code # None
        THEN Finish(r, loc[r], ErrorStatus(res.code, 200), <<res.code>>)
        ELSE Goto(r, [loc[r] EXCEPT !.cartId = db.nextCartId], found)
     /\ UNCHANGED <<nCancel, nStatus>>

AddToCart_FindCart(r) ==
  /\ pc[r] = "ac_findCart"
  /\ GetOrCreateCart_Find(r, "ac_findItem", "ac_createCart")

AddToCart_CreateCart(r) ==
  /\ pc[r] = "ac_createCart"
  /\ GetOrCreateCart_Create(r, "ac_findItem")

\* addToCart: prisma.cartItem.findUnique({ where: { cartId_productId } }) and the
\* check of the grown quantity against the stock read at the start
AddToCart_FindItem(r) ==
  /\ pc[r] = "ac_findItem"
  /\ LET l == loc[r]
         existing == IF l.cartId \in DOMAIN db.cartItems
                     THEN db.cartItems[l.cartId][l.productId] ELSE 0
     IN IF existing > 0 /\ l.stockRead < existing + l.quantity
        THEN Finish(r, l, 400, <<"Cannot add more", l.stockRead - existing>>)
        ELSE Goto(r, [l EXCEPT !.existingQty = existing], "ac_write")
  /\ UNCHANGED <<db, nCancel, nStatus>>

\* prisma.cartItem.update({ where: { id }, data: { quantity: newQuantity } })
CartItemUpdate(d, c, p, newQuantity) ==
  IF c \notin DOMAIN d.cartItems \/ d.cartItems[c][p] = 0
  THEN Err(d, "P2025")
  ELSE Ok([d EXCEPT !.cartItems[c][p] = newQuantity])

\* prisma.cartItem.create({ data: { cartId, productId, quantity } })
CartItemCreate(d, c, p, q) ==
  IF c \notin DOMAIN d.carts THEN Err(d, "P2003")
  ELSE IF d.cartItems[c][p] > 0 THEN Err(d, "P2002")
  ELSE Ok([d EXCEPT !.cartItems[c][p] = q])

\* addToCart: the update of the existing row or the insert of a new one
AddToCart_Write(r) ==
  /\ pc[r] = "ac_write"
  /\ LET l == loc[r]
         res == IF l.existingQty > 0
                THEN CartItemUpdate(db, l.cartId, l.productId, l.existingQty + l.quantity)
                ELSE CartItemCreate(db, l.cartId, l.productId, l.quantity)
     IN /\ db' = res.db
        /\ IF res.code # None
           THEN Finish(r, l, ErrorStatus(res.code, 200), <<res.code>>)
           ELSE Finish(r, l, 200, <<"added to cart">>)
  /\ UNCHANGED <<nCancel, nStatus>>

\* getCart: getOrCreateCart, then prisma.cart.findUnique with the items
GetCart_FindCart(r, u) ==
  /\ Free(r)
  /\ LET c == FindActiveCart(db, u)
         l == [LocInit EXCEPT !.handler = "getCart", !.user = u]
     IN IF c # 0 THEN Goto(r, [l EXCEPT !.cartId = c], "gc_read")
        ELSE Goto(r, l, "gc_createCart")
  /\ UNCHANGED <<db, nCancel, nStatus>>

GetCart_CreateCart(r) ==
  /\ pc[r] = "gc_createCart"
  /\ GetOrCreateCart_Create(r, "gc_read")

GetCart_Read(r) ==
  /\ pc[r] = "gc_read"
  /\ LET l == loc[r]
     IN IF l.cartId \in DOMAIN db.carts
        THEN Finish(r, [l EXCEPT !.items = db.cartItems[l.cartId]], 200, <<"cart">>)
        ELSE Finish(r, l, 500, <<"TypeError">>)
  /\ UNCHANGED <<db, nCancel, nStatus>>


\* ------------------------------------------------------------------ numbers
\* JavaScript numbers are IEEE 754 doubles.  A non-negative double below 2^32
\* is written here as the natural number of units of 2^-FractionBits it is
\* worth (every double from 2^-11 up is a whole number of such units), as
\* Limbs digits in base Base, least significant first.
Base == 65536
BaseBits == 16
Limbs == 6
FractionBits == 64
MantissaBits == 53

Zero == [j \in 1..Limbs |-> 0]

\* a + b, with the carry into digit j
RECURSIVE AddFrom(_, _, _, _)
AddFrom(a, b, j, carry) ==
  IF j > Limbs THEN <<>>
  ELSE <<(a[j] + b[j] + carry) % Base>>
       \o AddFrom(a, b, j + 1, (a[j] + b[j] + carry) \div Base)
AddLimbs(a, b) == AddFrom(a, b, 1, 0)

\* a * k for a small whole number k
RECURSIVE MulFrom(_, _, _, _)
MulFrom(a, k, j, carry) ==
  IF j > Limbs THEN <<>>
  ELSE <<(a[j] * k + carry) % Base>> \o MulFrom(a, k, j + 1, (a[j] * k + carry) \div Base)
MulSmall(a, k) == MulFrom(a, k, 1, 0)

\* long division of a by a small whole number k, from digit j down: the
\* quotient and the remainder
RECURSIVE DivFrom(_, _, _, _)
DivFrom(a, k, j, rem) ==
  IF j = 0 THEN [q |-> <<>>, r |-> rem]
  ELSE LET cur == rem * Base + a[j]
           rest == DivFrom(a, k, j - 1, cur % k)
       IN [q |-> rest.q \o <<cur \div k>>, r |-> rest.r]
DivSmall(a, k) == DivFrom(a, k, Limbs, 0)

\* a >= b
Geq(a, b) ==
  \/ a = b
  \/ \E j \in 1..Limbs : a[j] > b[j] /\ \A k \in (j + 1)..Limbs : a[k] = b[k]

\* bit i of a (bit 0 is the least significant) and the number of bits of a
Bit(a, i) == (a[(i \div BaseBits) + 1] \div (2 ^ (i % BaseBits))) % 2
BitLength(a) ==
  IF a = Zero THEN 0
  ELSE 1 + CHOOSE i \in 0..(Limbs * BaseBits - 1) :
             Bit(a, i) = 1 /\ \A k \in (i + 1)..(Limbs * BaseBits - 1) : Bit(a, k) = 0

\* a with its d low bits cleared, and 2^d
ClearLow(a, d) ==
  [j \in 1..Limbs |->
     IF j * BaseBits <= d THEN 0
     ELSE IF (j - 1) * BaseBits >= d THEN a[j]
     ELSE a[j] - (a[j] % (2 ^ (d - (j - 1) * BaseBits)))]
PowerOfTwo(d) ==
  [j \in 1..Limbs |-> IF j = (d \div BaseBits) + 1 THEN 2 ^ (d % BaseBits) ELSE 0]

\* round to nearest, ties to even, to the MantissaBits significant bits of a
\* double; sticky tells that the exact value lies above a by less than one unit
RoundToDouble(a, sticky) ==
  IF BitLength(a) <= MantissaBits THEN a
  ELSE LET d == BitLength(a) - MantissaBits
           below == sticky \/ \E i \in 0..(d - 2) : Bit(a, i) = 1
           up == Bit(a, d - 1) = 1 /\ (below \/ Bit(a, d) = 1)
       IN IF up THEN AddLimbs(ClearLow(a, d), PowerOfTwo(d)) ELSE ClearLow(a, d)

\* the double of a whole number below 2^31
Number(n) ==
  [j \in 1..Limbs |->
     IF j = (FractionBits \div BaseBits) + 1 THEN n % Base
     ELSE IF j = (FractionBits \div BaseBits) + 2 THEN n \div Base
     ELSE 0]

\* parseFloat(unitPrice): the double nearest to a DECIMAL(10, 2) value, given in cents
parseFloat(cents) ==
  LET d == DivSmall(Number(cents), 100)
  IN RoundToDouble(d.q, d.r # 0)

\* x * n for a double x and a whole number n, and x + y for two doubles
Times(x, n) == RoundToDouble(MulSmall(x, n), FALSE)
Plus(x, y) == RoundToDouble(AddLimbs(x, y), FALSE)

\* a number written to a DECIMAL(10, 2) column, in cents: the value is rounded
\* to the nearest cent
ToDecimal(x) ==
  LET h == MulSmall(x, 100)
      whole == h[(FractionBits \div BaseBits) + 1] + Base * h[(FractionBits \div BaseBits) + 2]
  IN whole + Bit(h, FractionBits - 1)

\* ----------------------------------------------------------- order handlers
ProductOrder == <<"A", "B">>
\* the lines of a cart or an order as the rows the query returned
LineSeq(items) == SelectSeq(ProductOrder, LAMBDA p : items[p] > 0)

\* stock statements that move every line by one unit, whatever its quantity
StockStmtsIgnoringQuantity(items, sign) ==
  [i \in 1..Len(LineSeq(items)) |->
     [op |-> "product.update", productId |-> LineSeq(items)[i], delta |-> sign]]

\* for (const item of items) tx.product.update({ stock: { decrement | increment: item.quantity } })
StockStmts(items, sign) ==
  [i \in 1..Len(LineSeq(items)) |->
     [op |-> "product.update", productId |-> LineSeq(items)[i],
      delta |-> sign * items[LineSeq(items)[i]]]]

InFlightOrders == Cardinality({s \in Slots : pc[s] \in {"co_count", "co_tx"}})

\* the loop without its stock comparison
OffendingInactiveOnly(d, items) == {p \in Lines(items) : ~d.isActive[p]}

\* the cart lines createOrder rejects: inactive product, or more than the stock
Offending(d, items) ==
  {p \in Lines(items) : ~d.isActive[p] \/ d.stock[p] < items[p]}

\* the test without its items.length part
CartIsEmptyNoItemsCheck(d, c) == c = 0

\* if (!cart || cart.items.length === 0): c is the cart found, 0 when none
CartIsEmpty(d, c) == c = 0 \/ Lines(d.cartItems[c]) = {}

\* createOrder: validation of the body, prisma.cart.findFirst with items and
\* products, and the loop over cart.items
CreateOrder_FindCart(r, u, hasShipping) ==
  /\ Free(r)
  /\ LET c == FindActiveCart(db, u)
         l == [LocInit EXCEPT !.handler = "createOrder", !.user = u,
                              !.hasShipping = hasShipping]
     IN IF ~hasShipping
        THEN Finish(r, l, 400, <<"Please provide shipping address and phone number">>)
        ELSE IF CartIsEmpty(db, c)
        THEN Finish(r, l, 400, <<"Your cart is empty">>)
        ELSE LET items == db.cartItems[c]
                 lc == [l EXCEPT !.cartId = c, !.items = items]
             IN IF Offending(db, items) # {}
                THEN \E p \in Offending(db, items) :
                       IF ~db.isActive[p]
                       THEN Finish(r, lc, 400, <<"is no longer available", p>>)
                       ELSE Finish(r, lc, 400, <<"Insufficient stock", p, db.stock[p]>>)
                ELSE /\ Cardinality(DOMAIN db.orders) + InFlightOrders < MaxOrders
                     /\ Goto(r, lc, "co_count")
  /\ UNCHANGED <<db, nCancel, nStatus>>

\* createOrder: const orderNumber = await generateOrderNumber()
CreateOrder_GenerateOrderNumber(r) ==
  /\ pc[r] = "co_count"
  /\ Goto(r, [loc[r] EXCEPT !.orderNumber = generateOrderNumber(db)], "co_tx")
  /\ UNCHANGED <<db, nCancel, nStatus>>

\* the statements of createOrder's transaction, for the locals l, on database d
CreateOrderStmts(l, d) ==
  <<[op |-> "order.create", orderNumber |-> l.orderNumber, userId |-> l.user,
     items |-> l.items]>>
  \o StockStmts(l.items, -1)
  \o <<[op |-> "orderTracking.create", orderId |-> d.nextOrderId,
        status |-> "Order Placed",
        description |-> "Your order has been placed successfully",
        updatedBy |-> None],
       [op |-> "cartItem.deleteMany", cartId |-> l.cartId],
       [op |-> "cart.delete", cartId |-> l.cartId]>>

\* createOrder: prisma.$transaction and the response
CreateOrder_Transaction(r) ==
  /\ pc[r] = "co_tx"
  /\ LET l == loc[r]
         stmts == CreateOrderStmts(l, db)
     IN \E failAt \in 1..(Len(stmts) + 1) :
          LET res == Transaction(db, stmts, failAt)
          IN /\ db' = res.db
             /\ IF res.code = None
                THEN \E transportFails \in BOOLEAN :
                       Finish(r, [l EXCEPT !.orderId = db.nextOrderId,
                                           !.emailFailed = transportFails],
                              StatusAfterNotify(Notify(sendEmail(transportFails)), 201),
                              <<"Order placed successfully">>)
                ELSE Finish(r, l, ErrorStatus(res.code, 200), <<res.code>>)
  /\ UNCHANGED <<nCancel, nStatus>>

\* item.product.discountPrice || item.product.price, in cents: a Decimal
\* object is truthy whatever its value, null is not (a discount price is
\* <<cents>>, null is <<>>)
UnitPrice(d, p) ==
  IF d.discountPrice[p] # <<>> THEN d.discountPrice[p][1] ELSE d.price[p]

\* the loop over cart.items: subtotal += parseFloat(unitPrice) * item.quantity
RECURSIVE SubtotalFrom(_, _, _, _)
SubtotalFrom(d, items, lines, subtotal) ==
  IF lines = <<>> THEN subtotal
  ELSE SubtotalFrom(d, items, Tail(lines),
                    Plus(subtotal, Times(parseFloat(UnitPrice(d, Head(lines))),
                                         items[Head(lines)])))

\* createOrder's amounts as the order row holds and returns them, in cents
OrderAmounts(d, items) ==
  LET subtotal == SubtotalFrom(d, items, LineSeq(items), Zero)
      shippingCost == IF Geq(subtotal, Number(5000)) THEN Number(0) ELSE Number(200)
      taxAmount == Number(0)
      totalAmount == Plus(Plus(subtotal, shippingCost), taxAmount)
  IN [subtotal |-> ToDecimal(subtotal), shippingCost |-> ToDecimal(shippingCost),
      taxAmount |-> ToDecimal(taxAmount), totalAmount |-> ToDecimal(totalAmount)]

\* orderItems.push({ quantity, unitPrice, totalPrice, ... }) as the rows hold them
OrderItemRows(d, items) ==
  [p \in Lines(items) |->
     [quantity |-> items[p], unitPrice |-> UnitPrice(d, p),
      totalPrice |-> ToDecimal(Times(parseFloat(UnitPrice(d, p)), items[p]))]]

\* createOrder run to completion without another request's calls in between,
\* with the amounts of the order: the cart lookup, the loop, generateOrderNumber,
\* the transaction and the response
CreateOrder_Priced(r, u) ==
  /\ Free(r)
  /\ LET c == FindActiveCart(db, u)
         l == [LocInit EXCEPT !.handler = "createOrder", !.user = u, !.hasShipping = TRUE]
     IN IF CartIsEmpty(db, c)
        THEN Finish(r, l, 400, <<"Your cart is empty">>) /\ UNCHANGED db
        ELSE LET items == db.cartItems[c]
                 lc == [l EXCEPT !.cartId = c, !.items = items,
                                 !.orderNumber = generateOrderNumber(db)]
                 stmts == CreateOrderStmts(lc, db)
             IN IF Offending(db, items) # {}
                THEN Finish(r, lc, 400, <<"not available or insufficient stock">>)
                     /\ UNCHANGED db
                ELSE \E failAt \in 1..(Len(stmts) + 1) :
                       LET res == Transaction(db, stmts, failAt)
                           o == db.nextOrderId
                       IN IF res.code = None
                          THEN /\ db' = [res.db EXCEPT !.orders[o] =
                                           @ @@ OrderAmounts(db, items)
                                             @@ [rows |-> OrderItemRows(db, items)]]
                               /\ Finish(r, [lc EXCEPT !.orderId = o], 201,
                                         <<"Order placed successfully">>)
                          ELSE /\ db' = res.db
                               /\ Finish(r, lc, ErrorStatus(res.code, 200), <<res.code>>)
  /\ UNCHANGED <<nCancel, nStatus>>

OrderIds == 1..MaxOrders
\* parseInt(req.params.id): a number, or NaN for text that starts with no digit
IdParams == [isNaN : {FALSE}, value : OrderIds] \cup {[isNaN |-> TRUE, value |-> 0]}

\* the checks without the rule that an admin gives a reason for another's order
CancelCheckNoReasonRule(order, u, reason) ==
  LET isAdmin == Role[u] = "ADMIN"
      isOwner == order.userId = u
  IN IF ~isAdmin /\ ~isOwner
     THEN [status |-> 403, message |-> <<"Not authorized to cancel this order">>]
     ELSE IF ~isAdmin /\ order.status \notin {"PENDING", "CONFIRMED"}
     THEN [status |-> 400, message |-> <<"Order cannot be cancelled at this stage">>]
     ELSE [status |-> 0, message |-> <<>>]

\* cancelOrder's authorization and state checks on the order it read: the
\* status and message of the rejection, status 0 when the call may go on
CancelCheck(order, u, reason) ==
  LET isAdmin == Role[u] = "ADMIN"
      isOwner == order.userId = u
  IN IF ~isAdmin /\ ~isOwner
     THEN [status |-> 403, message |-> <<"Not authorized to cancel this order">>]
     ELSE IF ~isAdmin /\ order.status \notin {"PENDING", "CONFIRMED"}
     THEN [status |-> 400, message |-> <<"Order cannot be cancelled at this stage">>]
     ELSE IF isAdmin /\ ~isOwner /\ reason = None
     THEN [status |-> 400, message |-> <<"Admin must provide a reason for cancellation">>]
     ELSE [status |-> 0, message |-> <<>>]

\* cancelOrder: parseInt(id), prisma.order.findUnique with items, and the checks
CancelOrder_FindOrder(r, u, idp, reason) ==
  /\ Free(r)
  /\ LET l == [LocInit EXCEPT !.handler = "cancelOrder", !.user = u,
                              !.orderId = idp.value, !.reason = reason]
         id == idp.value
     IN IF idp.isNaN
        THEN Finish(r, l, 400, <<"Invalid order ID">>) /\ UNCHANGED nCancel
        ELSE IF id \notin DOMAIN db.orders
        THEN Finish(r, l, 404, <<"Order not found">>) /\ UNCHANGED nCancel
        ELSE LET order == db.orders[id]
                 chk == CancelCheck(order, u, reason)
                 lo == [l EXCEPT !.statusRead = order.status, !.items = order.items,
                                 !.ownerRead = order.userId]
             IN IF chk.status # 0
                THEN Finish(r, l, chk.status, chk.message) /\ UNCHANGED nCancel
                ELSE /\ nCancel < MaxCancels
                     /\ Goto(r, lo, "cx_tx")
                     /\ nCancel' = nCancel + 1
  /\ UNCHANGED <<db, nStatus>>

\* cancelOrder's statements as they would be without the tracking event
CancelOrderStmtsNoTracking(l) ==
  <<[op |-> "order.update", orderId |-> l.orderId,
     data |-> [status |-> "CANCELLED", cancelledAt |-> TRUE,
               cancelReason |-> IF l.reason # None THEN l.reason
                                ELSE "Cancelled by customer"]]>>
  \o StockStmts(l.items, 1)

\* the statements of cancelOrder's transaction
CancelOrderStmts(l) ==
  <<[op |-> "order.update", orderId |-> l.orderId,
     data |-> [status |-> "CANCELLED", cancelledAt |-> TRUE,
               cancelReason |-> IF l.reason # None THEN l.reason
                                ELSE "Cancelled by customer"]]>>
  \o StockStmts(l.items, 1)
  \o <<[op |-> "orderTracking.create", orderId |-> l.orderId, status |-> "Cancelled",
        description |-> IF l.reason # None THEN l.reason
                        ELSE "Order cancelled by customer",
        updatedBy |-> l.user]>>

\* cancelOrder: prisma.$transaction and the response
CancelOrder_Transaction(r) ==
  /\ pc[r] = "cx_tx"
  /\ LET l == loc[r]
         stmts == CancelOrderStmts(l)
     IN \E failAt \in 1..(Len(stmts) + 1) :
          LET res == Transaction(db, stmts, failAt)
          IN /\ db' = res.db
             /\ IF res.code = None
                THEN \E transportFails \in BOOLEAN :
                       Finish(r, [l EXCEPT !.emailFailed = transportFails],
                              StatusAfterNotify(Notify(sendEmail(transportFails)), 200),
                              <<"Order cancelled successfully">>)
                ELSE Finish(r, l, ErrorStatus(res.code, 200), <<res.code>>)
  /\ UNCHANGED <<nCancel, nStatus>>

\* updateOrderStatus behind authorize('ADMIN'): validation of id and status,
\* prisma.order.findUnique
UpdateOrderStatus_FindOrder(r, u, idp, status, trackingNumber, courierCompany) ==
  /\ Free(r)
  /\ LET l == [LocInit EXCEPT !.handler = "updateOrderStatus", !.user = u,
                              !.orderId = idp.value, !.newStatus = status,
                              !.trackingNumber = trackingNumber,
                              !.courierCompany = courierCompany]
         id == idp.value
     IN IF Role[u] # "ADMIN"
        THEN Finish(r, l, 403, <<"not authorized to access this route">>)
             /\ UNCHANGED nStatus
        ELSE IF idp.isNaN
        THEN Finish(r, l, 400, <<"Invalid order ID">>) /\ UNCHANGED nStatus
        ELSE IF status \notin Statuses
        THEN Finish(r, l, 400, <<"Invalid status">>) /\ UNCHANGED nStatus
        ELSE IF id \notin DOMAIN db.orders
        THEN Finish(r, l, 404, <<"Order not found">>) /\ UNCHANGED nStatus
        ELSE /\ nStatus < MaxStatusUpdates
             /\ Goto(r, [l EXCEPT !.statusRead = db.orders[id].status], "us_tx")
             /\ nStatus' = nStatus + 1
  /\ UNCHANGED <<db, nCancel>>

\* an updateData that carries the status alone
StatusUpdateDataNoTimestamp(newStatus) == [status |-> newStatus]

\* updateData: the status and the milestone timestamp it stamps
StatusUpdateData(newStatus) ==
  CASE newStatus = "CONFIRMED" -> [status |-> newStatus, confirmedAt |-> TRUE]
    [] newStatus = "SHIPPED" -> [status |-> newStatus, shippedAt |-> TRUE]
    [] newStatus = "DELIVERED" -> [status |-> newStatus, deliveredAt |-> TRUE]
    [] OTHER -> [status |-> newStatus]

\* the statements of updateOrderStatus's transaction
UpdateOrderStatusStmts(l) ==
  <<[op |-> "order.update", orderId |-> l.orderId, data |-> StatusUpdateData(l.newStatus)],
    [op |-> "orderTracking.create", orderId |-> l.orderId, status |-> l.newStatus,
     description |-> <<"Order status updated to", l.newStatus>>,
     updatedBy |-> l.user]>>
  \o (IF l.newStatus = "SHIPPED" \/ l.trackingNumber # None \/ l.courierCompany # None
      THEN <<[op |-> "delivery.upsert", orderId |-> l.orderId, newStatus |-> l.newStatus,
              trackingNumber |-> l.trackingNumber,
              courierCompany |-> l.courierCompany]>>
      ELSE <<>>)

\* updateOrderStatus: prisma.$transaction and the response
UpdateOrderStatus_Transaction(r) ==
  /\ pc[r] = "us_tx"
  /\ LET l == loc[r]
         stmts == UpdateOrderStatusStmts(l)
     IN \E failAt \in 1..(Len(stmts) + 1) :
          LET res == Transaction(db, stmts, failAt)
          IN /\ db' = res.db
             /\ IF res.code = None
                THEN \E transportFails \in BOOLEAN :
                       Finish(r, [l EXCEPT !.emailFailed = transportFails],
                              StatusAfterNotify(Notify(sendEmail(transportFails)), 200),
                              <<"Order status updated">>)
                ELSE Finish(r, l, ErrorStatus(res.code, 200), <<res.code>>)
  /\ UNCHANGED <<nCancel, nStatus>>

\* ----------------------------------------------------------------- accounts
\* protect: the token's user is looked up for every request; 0 when the
\* request goes on to the handler
\* ProtectExistenceOnly: protect as it would be with the token's user looked
\* up but the status not checked
ProtectExistenceOnly(d, u) == IF u \notin DOMAIN d.users THEN 401 ELSE 0

Protect(d, u) ==
  IF u \notin DOMAIN d.users THEN 401
  ELSE IF d.users[u] \in {"BLOCKED", "INACTIVE"} THEN 403
  ELSE 0

\* protect answers the request itself
ProtectRejects(r, u) ==
  /\ Free(r)
  /\ Protect(db, u) # 0
  /\ Finish(r, [LocInit EXCEPT !.handler = "protect", !.user = u], Protect(db, u),
            <<"Not authorized">>)
  /\ UNCHANGED <<db, nCancel, nStatus>>

\* the statements of deleteOwnAccount's transaction
DeleteOwnAccountStmts(u) ==
  <<[op |-> "orderTracking.deleteMany", userId |-> u],
    [op |-> "orderItem.deleteMany", userId |-> u],
    [op |-> "delivery.deleteMany", userId |-> u],
    [op |-> "order.deleteMany", userId |-> u],
    [op |-> "cartItem.deleteManyOfUser", userId |-> u],
    [op |-> "cart.deleteMany", userId |-> u],
    [op |-> "user.delete", userId |-> u]>>

\* deleteOwnAccount: prisma.user.findUnique, prisma.$transaction([...]) and
\* the response
DeleteOwnAccount(r, u) ==
  /\ Free(r)
  /\ Protect(db, u) = 0
  /\ LET l == [LocInit EXCEPT !.handler = "deleteOwnAccount", !.user = u]
         stmts == DeleteOwnAccountStmts(u)
     IN \E failAt \in 1..(Len(stmts) + 1) :
          LET res == Transaction(db, stmts, failAt)
          IN /\ db' = res.db
             /\ IF res.code = None
                THEN Finish(r, l, 200, <<"Account deleted">>)
                ELSE Finish(r, l, ErrorStatus(res.code, 200), <<res.code>>)
  /\ UNCHANGED <<nCancel, nStatus>>

\* authorize('ADMIN'): 0 when the request goes on to the handler
Authorize(u) == IF Role[u] = "ADMIN" THEN 0 ELSE 403

\* getMe behind protect: the lookup of protect passed (ProtectRejects is the
\* other outcome), then prisma.user.findUnique of the handler
GetMe_Protect(r, u) ==
  /\ Free(r)
  /\ Protect(db, u) = 0
  /\ Goto(r, [LocInit EXCEPT !.handler = "getMe", !.user = u], "gm_find")
  /\ UNCHANGED <<db, nCancel, nStatus>>

GetMe_FindUser(r) ==
  /\ pc[r] = "gm_find"
  /\ IF loc[r].user \in DOMAIN db.users
     THEN Finish(r, loc[r], 200, <<"user">>)
     ELSE Finish(r, loc[r], 404, <<"User not found">>)
  /\ UNCHANGED <<db, nCancel, nStatus>>

\* prisma.user.update({ where: { id }, data: { status } })
UserUpdateStatus(d, t, status) ==
  IF t \notin DOMAIN d.users THEN Err(d, "P2025")
  ELSE Ok([d EXCEPT !.users[t] = status])

\* the write of an administrator's handler on slot r and its response
UserWrite(r, at, res, message) ==
  /\ pc[r] = at
  /\ db' = res.db
  /\ IF res.code = None
     THEN Finish(r, loc[r], 200, message)
     ELSE Finish(r, loc[r], ErrorStatus(res.code, 200), <<res.code>>)
  /\ UNCHANGED <<nCancel, nStatus>>

\* blockUser behind protect and authorize('ADMIN'): prisma.user.findUnique
\* and the checks
BlockUser_FindUser(r, a, t) ==
  /\ Free(r)
  /\ Protect(db, a) = 0
  /\ LET l == [LocInit EXCEPT !.handler = "blockUser", !.user = a, !.target = t]
     IN IF Authorize(a) # 0
        THEN Finish(r, l, Authorize(a), <<"not authorized to access this route">>)
        ELSE IF t \notin DOMAIN db.users
        THEN Finish(r, l, 404, <<"User not found">>)
        ELSE IF Role[t] = "ADMIN"
        THEN Finish(r, l, 400, <<"Cannot block admin users">>)
        ELSE IF t = a
        THEN Finish(r, l, 400, <<"Cannot block yourself">>)
        ELSE IF db.users[t] = "BLOCKED"
        THEN Finish(r, l, 400, <<"User is already blocked">>)
        ELSE Goto(r, l, "bu_update")
  /\ UNCHANGED <<db, nCancel, nStatus>>

\* blockUser: prisma.user.update({ data: { status: 'BLOCKED' } })
BlockUser_Update(r) ==
  UserWrite(r, "bu_update", UserUpdateStatus(db, loc[r].target, "BLOCKED"),
            <<"blocked">>)

\* unblockUser behind protect and authorize('ADMIN'): prisma.user.findUnique
\* and the checks
UnblockUser_FindUser(r, a, t) ==
  /\ Free(r)
  /\ Protect(db, a) = 0
  /\ LET l == [LocInit EXCEPT !.handler = "unblockUser", !.user = a, !.target = t]
     IN IF Authorize(a) # 0
        THEN Finish(r, l, Authorize(a), <<"not authorized to access this route">>)
        ELSE IF t \notin DOMAIN db.users
        THEN Finish(r, l, 404, <<"User not found">>)
        ELSE IF db.users[t] # "BLOCKED"
        THEN Finish(r, l, 400, <<"User is not blocked">>)
        ELSE Goto(r, l, "ub_update")
  /\ UNCHANGED <<db, nCancel, nStatus>>

\* unblockUser: prisma.user.update({ data: { status: 'ACTIVE' } })
UnblockUser_Update(r) ==
  UserWrite(r, "ub_update", UserUpdateStatus(db, loc[r].target, "ACTIVE"),
            <<"unblocked">>)

\* deleteUser behind protect and authorize('ADMIN'): the checks and
\* prisma.user.findUnique with the count of orders
DeleteUser_FindUser(r, a, t) ==
  /\ Free(r)
  /\ Protect(db, a) = 0
  /\ LET l == [LocInit EXCEPT !.handler = "deleteUser", !.user = a, !.target = t]
     IN IF Authorize(a) # 0
        THEN Finish(r, l, Authorize(a), <<"not authorized to access this route">>)
        ELSE IF t = a
        THEN Finish(r, l, 400, <<"Cannot delete your own account">>)
        ELSE IF t \notin DOMAIN db.users
        THEN Finish(r, l, 404, <<"User not found">>)
        ELSE IF Role[t] = "ADMIN"
        THEN Finish(r, l, 400, <<"Cannot delete admin users">>)
        ELSE Goto(r, l, IF OrdersOf(db, t) # {} THEN "du_deactivate" ELSE "du_delete")
  /\ UNCHANGED <<db, nCancel, nStatus>>

\* deleteUser of a user with orders: prisma.user.update({ data: { status: 'INACTIVE' } })
DeleteUser_Deactivate(r) ==
  UserWrite(r, "du_deactivate", UserUpdateStatus(db, loc[r].target, "INACTIVE"),
            <<"User deactivated">>)

\* the statements of deleteUser's transaction (reviews and notifications are
\* not part of the state)
DeleteUserStmts(t) ==
  <<[op |-> "cartItem.deleteManyOfUser", userId |-> t],
    [op |-> "cart.deleteMany", userId |-> t],
    [op |-> "user.delete", userId |-> t]>>

\* deleteUser of a user without orders: prisma.$transaction([...])
DeleteUser_Delete(r) ==
  /\ pc[r] = "du_delete"
  /\ \E failAt \in 1..(Len(DeleteUserStmts(loc[r].target)) + 1) :
       LET res == Transaction(db, DeleteUserStmts(loc[r].target), failAt)
       IN /\ db' = res.db
          /\ IF res.code = None
             THEN Finish(r, loc[r], 200, <<"User deleted successfully">>)
             ELSE Finish(r, loc[r], ErrorStatus(res.code, 200), <<res.code>>)
  /\ UNCHANGED <<nCancel, nStatus>>

\* ----------------------------------------------------------------- payments
\* the payment methods a caller sends: cash on delivery, a card, an unknown one
Methods == {"COD", "CREDIT_CARD", "BOGUS"}
ValidMethods == {"CREDIT_CARD", "DEBIT_CARD", "EASYPAISA", "JAZZCASH", "BANK_TRANSFER", "COD"}

\* the 'Payment Received' events of order o and the payments on their way to one
PaymentsReceived(d, o) ==
  Cardinality({i \in 1..Len(d.tracking[o]) : d.tracking[o][i].status = "Payment Received"})
InFlightPayments(o) ==
  Cardinality({s \in Slots : /\ pc[s] \in {"pp_upsert", "pp_tx", "rp_upsert", "rp_update"}
                             /\ loc[s].orderId = o
                             /\ loc[s].method # "COD"})

\* prisma.payment.upsert({ where: { orderId }, create, update }):
\* payments_order_id_fkey refers to the order
PaymentUpsert(d, o, method) ==
  IF o \notin DOMAIN d.orders THEN Err(d, "P2003")
  ELSE Ok([d EXCEPT !.payment =
             With(@, o, [method |-> method,
                         status |-> IF method = "COD" THEN "PENDING" ELSE "COMPLETED"])])

\* processPayment: validation of the body, prisma.order.findUnique with the
\* payment, and the checks
ProcessPayment_FindOrder(r, u, o, method) ==
  /\ Free(r)
  /\ LET l == [LocInit EXCEPT !.handler = "processPayment", !.user = u,
                              !.orderId = o, !.method = method]
     IN IF method \notin ValidMethods
        THEN Finish(r, l, 400, <<"Invalid payment method">>)
        ELSE IF o \notin DOMAIN db.orders
        THEN Finish(r, l, 404, <<"Order not found">>)
        ELSE IF db.orders[o].userId # u
        THEN Finish(r, l, 403, <<"Not authorized to pay for this order">>)
        ELSE IF o \in DOMAIN db.payment /\ db.payment[o].status = "COMPLETED"
        THEN Finish(r, l, 400, <<"This order has already been paid">>)
        ELSE IF db.orders[o].status = "CANCELLED"
        THEN Finish(r, l, 400, <<"Cannot pay for a cancelled order">>)
        ELSE /\ method # "COD" =>
                  PaymentsReceived(db, o) + InFlightPayments(o) < MaxPayments
             /\ Goto(r, [l EXCEPT !.statusRead = db.orders[o].status], "pp_upsert")
  /\ UNCHANGED <<db, nCancel, nStatus>>

\* a payment handler's prisma.payment.upsert; cash on delivery ends here
Payment_Upsert(r, at, next) ==
  /\ pc[r] = at
  /\ LET res == PaymentUpsert(db, loc[r].orderId, loc[r].method)
     IN /\ db' = res.db
        /\ IF res.code # None
           THEN Finish(r, loc[r], ErrorStatus(res.code, 200), <<res.code>>)
           ELSE IF loc[r].method = "COD"
           THEN Finish(r, loc[r], 200, <<"Payment processed">>)
           ELSE Goto(r, loc[r], next)
  /\ UNCHANGED <<nCancel, nStatus>>

ProcessPayment_Upsert(r) == Payment_Upsert(r, "pp_upsert", "pp_tx")

\* the statements of processPayment's transaction
ProcessPaymentStmts(l) ==
  <<[op |-> "order.update", orderId |-> l.orderId, data |-> [status |-> "CONFIRMED"]],
    [op |-> "orderTracking.create", orderId |-> l.orderId, status |-> "Payment Received",
     description |-> "Payment received", updatedBy |-> None]>>

\* processPayment: prisma.$transaction([...]) and the response
ProcessPayment_Transaction(r) ==
  /\ pc[r] = "pp_tx"
  /\ LET stmts == ProcessPaymentStmts(loc[r])
     IN \E failAt \in 1..(Len(stmts) + 1) :
          LET res == Transaction(db, stmts, failAt)
          IN /\ db' = res.db
             /\ IF res.code = None
                THEN Finish(r, loc[r], 200, <<"Payment successful">>)
                ELSE Finish(r, loc[r], ErrorStatus(res.code, 200), <<res.code>>)
  /\ UNCHANGED <<nCancel, nStatus>>

\* retryPayment: prisma.order.findUnique with the payment, and the checks
RetryPayment_FindOrder(r, u, o, method) ==
  /\ Free(r)
  /\ LET l == [LocInit EXCEPT !.handler = "retryPayment", !.user = u,
                              !.orderId = o, !.method = method]
     IN IF o \notin DOMAIN db.orders
        THEN Finish(r, l, 404, <<"Order not found">>)
        ELSE IF db.orders[o].userId # u
        THEN Finish(r, l, 403, <<"Not authorized">>)
        ELSE IF o \in DOMAIN db.payment /\ db.payment[o].status \notin {"PENDING", "FAILED"}
        THEN Finish(r, l, 400, <<"Payment cannot be retried for this order">>)
        ELSE /\ method # "COD" =>
                  PaymentsReceived(db, o) + InFlightPayments(o) < MaxPayments
             /\ Goto(r, [l EXCEPT !.statusRead = db.orders[o].status], "rp_upsert")
  /\ UNCHANGED <<db, nCancel, nStatus>>

RetryPayment_Upsert(r) == Payment_Upsert(r, "rp_upsert", "rp_update")

\* retryPayment: prisma.order.update({ data: { status: 'CONFIRMED' } }) and the response
RetryPayment_Update(r) ==
  /\ pc[r] = "rp_update"
  /\ LET res == OrderUpdate(db, [orderId |-> loc[r].orderId,
                                 data |-> [status |-> "CONFIRMED"]])
     IN /\ db' = res.db
        /\ IF res.code = None
           THEN Finish(r, loc[r], 200, <<"Payment processed successfully">>)
           ELSE Finish(r, loc[r], ErrorStatus(res.code, 200), <<res.code>>)
  /\ UNCHANGED <<nCancel, nStatus>>

\* ----------------------------------------------------------------- products
\* the quantities and operations an administrator sends
StockQuantities == {-1, 1, 2}
Operations == {"set", "add", "subtract"}

\* updateStock's switch (operation): the new stock, or -1000 for the 400 of
\* the 'subtract' and 'set' cases
Refused == -1000
StockAfter(operation, stock, quantity) ==
  CASE operation = "add" -> stock + quantity
    [] operation = "subtract" ->
         IF stock - quantity < 0 THEN Refused ELSE stock - quantity
    [] OTHER -> IF quantity < 0 THEN Refused ELSE quantity

\* updateStock and updateInventoryWithHistory (handler h): parseInt, the
\* reason check of the latter, prisma.product.findUnique and the switch
StockUpdate_FindProduct(r, h, u, p, quantity, operation, reason) ==
  /\ Free(r)
  /\ LET l == [LocInit EXCEPT !.handler = h, !.user = u, !.productId = p,
                              !.quantity = quantity, !.operation = operation,
                              !.reason = reason]
     IN IF Authorize(u) # 0
        THEN Finish(r, l, Authorize(u), <<"not authorized to access this route">>)
        ELSE IF h = "updateInventoryWithHistory" /\ reason = None
        THEN Finish(r, l, 400, <<"Reason for stock update is required">>)
        ELSE IF p \notin db.products
        THEN Finish(r, l, 404, <<"Product not found">>)
        ELSE LET newStock == StockAfter(operation, db.stock[p], quantity)
             IN IF newStock = Refused
                THEN Finish(r, l, 400, <<"Insufficient stock or negative stock">>)
                ELSE /\ newStock \in (-MaxStock)..MaxStock
                     /\ Goto(r, [l EXCEPT !.stockRead = db.stock[p],
                                          !.newStock = newStock], "st_tx")
  /\ UNCHANGED <<db, nCancel, nStatus>>

updateStock_FindProduct(r, u, p, quantity, operation) ==
  StockUpdate_FindProduct(r, "updateStock", u, p, quantity, operation, None)

updateInventoryWithHistory_FindProduct(r, u, p, quantity, operation, reason) ==
  StockUpdate_FindProduct(r, "updateInventoryWithHistory", u, p, quantity,
                          operation, reason)

\* updateStock and updateInventoryWithHistory: prisma.$transaction (the
\* product.update; the inventory log is not part of the state) and the response
StockUpdate_Transaction(r) ==
  /\ pc[r] = "st_tx"
  /\ LET l == loc[r]
         stmts == <<[op |-> "product.setStock", productId |-> l.productId,
                     stock |-> l.newStock]>>
     IN \E failAt \in 1..(Len(stmts) + 1) :
          LET res == Transaction(db, stmts, failAt)
          IN /\ db' = res.db
             /\ IF res.code = None
                THEN Finish(r, l, 200, <<"Stock updated successfully">>)
                ELSE Finish(r, l, ErrorStatus(res.code, 200), <<res.code>>)
  /\ UNCHANGED <<nCancel, nStatus>>

\* the bodies an administrator sends to bulkUpdateStock: one or two updates
BulkUpdates ==
  {<<[productId |-> p, quantity |-> q]>> : p \in Products, q \in StockQuantities}
  \cup {<<[productId |-> "A", quantity |-> q1], [productId |-> "B", quantity |-> q2]>> :
          q1 \in StockQuantities, q2 \in StockQuantities}

\* bulkUpdateStock: prisma.$transaction(updates.map(... product.update ...))
bulkUpdateStock(r, u, updates) ==
  /\ Free(r)
  /\ LET l == [LocInit EXCEPT !.handler = "bulkUpdateStock", !.user = u]
         stmts == [i \in 1..Len(updates) |->
                     [op |-> "product.setStock", productId |-> updates[i].productId,
                      stock |-> updates[i].quantity]]
     IN IF Authorize(u) # 0
        THEN Finish(r, l, Authorize(u), <<"not authorized to access this route">>)
             /\ UNCHANGED db
        ELSE \E failAt \in 1..(Len(stmts) + 1) :
               LET res == Transaction(db, stmts, failAt)
               IN /\ db' = res.db
                  /\ IF res.code = None
                     THEN Finish(r, l, 200, <<"Updated stock">>)
                     ELSE Finish(r, l, ErrorStatus(res.code, 200), <<res.code>>)
  /\ UNCHANGED <<nCancel, nStatus>>

\* product._count.orderItems > 0
HasOrderItems(d, p) == \E o \in DOMAIN d.orders : d.orders[o].items[p] > 0

\* deleteProduct: parseInt, prisma.product.findUnique with the counts, and
\* the warning
DeleteProduct_FindProduct(r, u, p, force) ==
  /\ Free(r)
  /\ LET l == [LocInit EXCEPT !.handler = "deleteProduct", !.user = u,
                              !.productId = p, !.force = force]
     IN IF Authorize(u) # 0
        THEN Finish(r, l, Authorize(u), <<"not authorized to access this route">>)
        ELSE IF p \notin db.products
        THEN Finish(r, l, 404, <<"Product not found">>)
        ELSE IF HasOrderItems(db, p) /\ ~force
        THEN Finish(r, l, 200, <<"warning: this product has orders">>)
        ELSE Goto(r, l, IF force THEN "dp_orderItems" ELSE "dp_deactivate")
  /\ UNCHANGED <<db, nCancel, nStatus>>

\* one call of deleteProduct outside any transaction: the call's effect, then
\* the next call (next) or, after the last one, the response
DeleteProduct_Call(r, at, res, next) ==
  /\ pc[r] = at
  /\ db' = res.db
  /\ IF res.code # None
     THEN Finish(r, loc[r], ErrorStatus(res.code, 200), <<res.code>>)
     ELSE IF next = "idle"
     THEN Finish(r, loc[r], 200, <<"Product deleted successfully">>)
     ELSE Goto(r, loc[r], next)
  /\ UNCHANGED <<nCancel, nStatus>>

\* force=true: prisma.orderItem.deleteMany
DeleteProduct_OrderItems(r) ==
  DeleteProduct_Call(r, "dp_orderItems",
                     OrderItemDeleteManyOfProduct(db, loc[r].productId), "dp_cartItems")

\* force=true: prisma.review.deleteMany (no modelled table) and prisma.cartItem.deleteMany
DeleteProduct_CartItems(r) ==
  DeleteProduct_Call(r, "dp_cartItems",
                     CartItemDeleteManyOfProduct(db, loc[r].productId), "dp_delete")

\* force=true: prisma.product.delete
DeleteProduct_Delete(r) ==
  DeleteProduct_Call(r, "dp_delete", ProductDelete(db, loc[r].productId), "idle")

\* otherwise: prisma.product.update({ data: { isActive: false } })
DeleteProduct_Deactivate(r) ==
  DeleteProduct_Call(r, "dp_deactivate", ProductDeactivate(db, loc[r].productId), "idle")

\* ------------------------------------------------------------- registration
\* users.id of the accounts signup creates (AUTO_INCREMENT after the seeded two)
NewIds == <<"u3", "u4", "u5">>
\* the e-mail addresses of request bodies, as characters; u@x.y is u1's
Emails == {<<>>, <<"n", "@", "x">>, <<"N", "@", "x", ".", "y">>,
           <<"n", "@", "x", ".", "y">>, <<"u", "@", "x", ".", "y">>}
Names == {None, "Ann"}
Passwords == {<<>>, <<1, 2, 3, 4, 5>>, <<1, 2, 3, 4, 5, 6>>}
BodyRoles == {None, "USER", "ADMIN", "admin", "BOGUS"}

\* String.prototype.toLowerCase and toUpperCase on the characters used here
toLowerCase(e) == [i \in 1..Len(e) |-> IF e[i] = "N" THEN "n" ELSE e[i]]
toUpperCase(role) ==
  CASE role = "admin" -> "ADMIN"
    [] role = "user" -> "USER"
    [] OTHER -> role

\* emailRegex.test(email): /^[^\s@]+@[^\s@]+\.[^\s@]+$/
emailRegexTest(e) ==
  \E at \in 2..Len(e) :
    /\ e[at] = "@"
    /\ \A i \in 1..Len(e) : e[i] # " " /\ (e[i] = "@" => i = at)
    /\ \E dot \in (at + 2)..(Len(e) - 1) : e[dot] = "."

\* the store's accounts with their roles and e-mail addresses
AccountsDb ==
  [users |-> [u \in Users |-> "ACTIVE"],
   role |-> Role,
   email |-> [u \in Users |-> IF u = "u1" THEN <<"u", "@", "x", ".", "y">>
                              ELSE <<"a", "@", "x", ".", "y">>],
   nextUserId |-> 1]

\* prisma.user.findUnique({ where: { email } }): the ids with that address
UserFindByEmail(d, email) == {u \in DOMAIN d.users : d.email[u] = email}

\* authorize(...roles) after protect: 0 when the request goes on
authorize(d, u, roles) == IF d.role[u] \notin roles THEN 403 ELSE 0

\* prisma.user.create of signup: the role column is an enum and the e-mail
\* address is unique
UserCreate(d, email, role) ==
  IF role \notin {"USER", "ADMIN"} THEN Err(d, "PrismaClientValidationError")
  ELSE IF UserFindByEmail(d, email) # {} THEN Err(d, "P2002")
  ELSE LET id == NewIds[d.nextUserId]
       IN Ok([d EXCEPT !.users = @ @@ (id :> "ACTIVE"),
                       !.role = @ @@ (id :> role),
                       !.email = @ @@ (id :> email),
                       !.nextUserId = @ + 1])

\* signup (public): the checks of the body and prisma.user.findUnique
Signup_FindUser(r, name, email, password, role) ==
  /\ Free(r)
  /\ LET l == [LocInit EXCEPT !.handler = "signup", !.email = email, !.role = role]
     IN IF name = None \/ email = <<>> \/ password = <<>>
        THEN Finish(r, l, 400, <<"Please provide name, email, and password">>)
        ELSE IF ~emailRegexTest(email)
        THEN Finish(r, l, 400, <<"Please provide a valid email address">>)
        ELSE IF Len(password) < 6
        THEN Finish(r, l, 400, <<"Password must be at least 6 characters long">>)
        ELSE IF UserFindByEmail(db, toLowerCase(email)) # {}
        THEN Finish(r, l, 400, <<"A user with this email already exists">>)
        ELSE /\ db.nextUserId + Cardinality({s \in Slots : pc[s] = "su_create"})
                  <= MaxSignups
             /\ Goto(r, l, "su_create")
  /\ UNCHANGED <<db, nCancel, nStatus>>

\* signup: prisma.user.create({ data: { ..., role: role || "USER" } }) and
\* the 201
Signup_Create(r) ==
  /\ pc[r] = "su_create"
  /\ LET l == loc[r]
         res == UserCreate(db, toLowerCase(l.email),
                           IF l.role = None THEN "USER" ELSE l.role)
     IN /\ db' = res.db
        /\ IF res.code = None
           THEN Finish(r, l, 201, <<"Account created successfully">>)
           ELSE Finish(r, l, ErrorStatus(res.code, 200), <<res.code>>)
  /\ UNCHANGED <<nCancel, nStatus>>

\* updateUserRole behind protect and authorize('ADMIN'): the checks and
\* prisma.user.findUnique
UpdateUserRole_FindUser(r, a, t, role) ==
  /\ Free(r)
  /\ Protect(db, a) = 0
  /\ LET l == [LocInit EXCEPT !.handler = "updateUserRole", !.user = a,
                              !.target = t, !.role = role]
     IN IF authorize(db, a, {"ADMIN"}) # 0
        THEN Finish(r, l, 403, <<"not authorized to access this route">>)
        ELSE IF role = None \/ toUpperCase(role) \notin {"USER", "ADMIN"}
        THEN Finish(r, l, 400, <<"Invalid role. Must be USER or ADMIN">>)
        ELSE IF t = a
        THEN Finish(r, l, 400, <<"Cannot change your own role">>)
        ELSE IF t \notin DOMAIN db.users
        THEN Finish(r, l, 404, <<"User not found">>)
        ELSE Goto(r, l, "ur_update")
  /\ UNCHANGED <<db, nCancel, nStatus>>

\* prisma.user.update({ where: { id }, data: { role } })
UserUpdateRole(d, t, role) ==
  IF t \notin DOMAIN d.users THEN Err(d, "P2025")
  ELSE Ok([d EXCEPT !.role[t] = role])

\* updateUserRole: prisma.user.update({ data: { role: role.toUpperCase() } })
UpdateUserRole_Update(r) ==
  UserWrite(r, "ur_update",
            UserUpdateRole(db, loc[r].target, toUpperCase(loc[r].role)),
            <<"User role updated">>)

\* every id the users table can hold
UserIds == Users \cup {NewIds[i] : i \in 1..Len(NewIds)}

InitSignup ==
  /\ db = AccountsDb
  /\ pc = [r \in Slots |-> "idle"]
  /\ loc = [r \in Slots |-> LocInit]
  /\ last = NoResp
  /\ nCancel = 0
  /\ nStatus = 0

NextSignup ==
  \/ ResponseSent
  \/ /\ last = NoResp
     /\ \/ \E r \in Slots, name \in Names, email \in Emails,
              password \in Passwords, role \in BodyRoles :
              Signup_FindUser(r, name, email, password, role)
        \/ \E r \in Slots : Signup_Create(r)
        \/ \E r \in Slots, u \in UserIds : ProtectRejects(r, u)
        \/ \E r \in Slots, a \in UserIds, t \in UserIds, role \in BodyRoles :
              UpdateUserRole_FindUser(r, a, t, role)
        \/ \E r \in Slots : UpdateUserRole_Update(r)

SpecSignup == InitSignup /\ [][NextSignup]_vars

\* ----------------------------------------------------------- password reset
\* 10 * 60 * 1000 ms, in the clock's units of five minutes
ResetWindow == 2
\* the e-mail addresses of forgotPassword's bodies: none, u1's, the
\* administrator's, nobody's
ResetEmails == {<<>>, <<"u", "@", "x", ".", "y">>, <<"a", "@", "x", ".", "y">>,
                <<"N", "@", "x", ".", "y">>}
\* the tokens of resetPassword's URLs: none (0), one that was never issued,
\* or one that an e-mail of forgotPassword carried; and the passwords of its
\* bodies
Tokens(d) == {0, MaxTokens + 1} \cup d.sent
NewPasswords == {<<>>, <<1, 2, 3, 4, 5>>, <<1, 2, 3, 4, 5, 6>>, <<6, 5, 4, 3, 2, 1>>}

\* crypto.createHash('sha256').update(token).digest('hex')
hashResetToken(token) == 2 * token + 1
\* bcrypt.hash(password, salt)
bcryptHash(password) == <<"bcrypt">> \o password

\* the accounts with their passwords and reset columns (0: NULL), the value
\* crypto.randomBytes gives next (tokens do not repeat), the tokens of the
\* e-mails sent and the clock
ResetDb ==
  AccountsDb @@ [password |-> [u \in Users |-> bcryptHash(<<0, 0, 0, 0, 0, 0>>)],
                 resetPasswordToken |-> [u \in Users |-> 0],
                 resetPasswordExpire |-> [u \in Users |-> 0],
                 nextToken |-> 1,
                 sent |-> {},
                 now |-> 0]

\* prisma.user.update({ where: { id }, data }) on the reset columns
UserUpdateReset(d, t, token, expire) ==
  IF t \notin DOMAIN d.users THEN Err(d, "P2025")
  ELSE Ok([d EXCEPT !.resetPasswordToken[t] = token,
                    !.resetPasswordExpire[t] = expire])

\* prisma.user.findFirst({ where: { resetPasswordToken, resetPasswordExpire: { gt: new Date() } } })
UserFindByResetToken(d, hashedToken) ==
  {u \in DOMAIN d.users : /\ d.resetPasswordToken[u] = hashedToken
                          /\ d.resetPasswordExpire[u] > d.now}

\* time passes
Tick ==
  /\ db.now < MaxTime
  /\ db' = [db EXCEPT !.now = @ + 1]
  /\ UNCHANGED <<pc, loc, last, nCancel, nStatus>>

\* forgotPassword (public): the check of the body, prisma.user.findUnique,
\* generateResetToken and the expiry
ForgotPassword_FindUser(r, email) ==
  /\ Free(r)
  /\ LET l == [LocInit EXCEPT !.handler = "forgotPassword", !.email = email]
         found == UserFindByEmail(db, toLowerCase(email))
     IN IF email = <<>>
        THEN Finish(r, l, 400, <<"Please provide your email address">>)
             /\ UNCHANGED db
        ELSE IF found = {}
        THEN Finish(r, l, 200, <<"a password reset link has been sent">>)
             /\ UNCHANGED db
        ELSE /\ db.nextToken <= MaxTokens
             /\ db' = [db EXCEPT !.nextToken = @ + 1]
             /\ Goto(r, [l EXCEPT !.target = CHOOSE u \in found : TRUE,
                                  !.token = db.nextToken,
                                  !.expire = db.now + ResetWindow], "fp_update")
  /\ UNCHANGED <<nCancel, nStatus>>

\* forgotPassword: prisma.user.update of the hashed token and the expiry, then
\* sendEmail, which succeeds (the 200) or throws
ForgotPassword_Update(r) ==
  /\ pc[r] = "fp_update"
  /\ LET l == loc[r]
         res == UserUpdateReset(db, l.target, hashResetToken(l.token), l.expire)
     IN IF res.code # None
        THEN /\ db' = res.db
             /\ Finish(r, l, ErrorStatus(res.code, 200), <<res.code>>)
        ELSE \E sent \in BOOLEAN :
               IF sent
               THEN /\ db' = [res.db EXCEPT !.sent = @ \cup {l.token}]
                    /\ Finish(r, l, 200, <<"a password reset link has been sent">>)
               ELSE /\ db' = res.db
                    /\ Goto(r, [l EXCEPT !.emailFailed = TRUE], "fp_clear")
  /\ UNCHANGED <<nCancel, nStatus>>

\* forgotPassword's catch: prisma.user.update to NULL and the 500
ForgotPassword_Clear(r) ==
  /\ pc[r] = "fp_clear"
  /\ LET l == loc[r]
         res == UserUpdateReset(db, l.target, 0, 0)
     IN /\ db' = res.db
        /\ IF res.code # None
           THEN Finish(r, l, ErrorStatus(res.code, 200), <<res.code>>)
           ELSE Finish(r, l, 500, <<"Failed to send reset email">>)
  /\ UNCHANGED <<nCancel, nStatus>>

\* resetPassword (public): the checks of the request, hashResetToken and
\* prisma.user.findFirst
ResetPassword_FindUser(r, token, password, confirmPassword) ==
  /\ Free(r)
  /\ LET l == [LocInit EXCEPT !.handler = "resetPassword", !.token = token,
                              !.password = password]
         found == UserFindByResetToken(db, hashResetToken(token))
     IN IF token = 0
        THEN Finish(r, l, 400, <<"Reset token is required">>)
        ELSE IF password = <<>> \/ confirmPassword = <<>>
        THEN Finish(r, l, 400, <<"Please provide new password and confirmation">>)
        ELSE IF password # confirmPassword
        THEN Finish(r, l, 400, <<"Passwords do not match">>)
        ELSE IF Len(password) < 6
        THEN Finish(r, l, 400, <<"Password must be at least 6 characters long">>)
        ELSE IF found = {}
        THEN Finish(r, l, 400, <<"Invalid or expired reset token">>)
        ELSE Goto(r, [l EXCEPT !.target = CHOOSE u \in found : TRUE], "rs_update")
  /\ UNCHANGED <<db, nCancel, nStatus>>

\* prisma.user.update({ data: { password, resetPasswordToken: null, resetPasswordExpire: null } })
UserUpdatePassword(d, t, hashedPassword) ==
  IF t \notin DOMAIN d.users THEN Err(d, "P2025")
  ELSE Ok([d EXCEPT !.password[t] = hashedPassword,
                    !.resetPasswordToken[t] = 0,
                    !.resetPasswordExpire[t] = 0])

\* resetPassword: bcrypt.hash, prisma.user.update and the 200
ResetPassword_Update(r) ==
  UserWrite(r, "rs_update",
            UserUpdatePassword(db, loc[r].target, bcryptHash(loc[r].password)),
            <<"Password reset successful">>)

InitReset ==
  /\ db = ResetDb
  /\ pc = [r \in Slots |-> "idle"]
  /\ loc = [r \in Slots |-> LocInit]
  /\ last = NoResp
  /\ nCancel = 0
  /\ nStatus = 0

NextReset ==
  \/ ResponseSent
  \/ /\ last = NoResp
     /\ \/ Tick
        \/ \E r \in Slots, email \in ResetEmails : ForgotPassword_FindUser(r, email)
        \/ \E r \in Slots : ForgotPassword_Update(r)
        \/ \E r \in Slots : ForgotPassword_Clear(r)
        \/ \E r \in Slots, token \in Tokens(db), password \in NewPasswords,
              confirmPassword \in NewPasswords :
              ResetPassword_FindUser(r, token, password, confirmPassword)
        \/ \E r \in Slots : ResetPassword_Update(r)

SpecReset == InitReset /\ [][NextReset]_vars

\* ------------------------------------------------------------ specification
Quantities == {1, 2}

\* addToCart run to completion without another request's calls in between:
\* product lookup, getOrCreateCart, item lookup, update or insert
AddToCart(r, u, p, q) ==
  /\ Free(r)
  /\ LET l == [LocInit EXCEPT !.handler = "addToCart", !.user = u, !.productId = p,
                              !.quantity = q]
         d1 == IF FindActiveCart(db, u) = 0 THEN CartCreate(db, u).db ELSE db
         c == FindActiveCart(d1, u)
         existing == d1.cartItems[c][p]
     IN IF ~db.isActive[p]
        THEN Finish(r, l, 400, <<"This product is no longer available">>) /\ UNCHANGED db
        ELSE IF db.stock[p] < q
        THEN Finish(r, l, 400, <<"Insufficient stock", db.stock[p]>>) /\ UNCHANGED db
        ELSE IF existing > 0 /\ db.stock[p] < existing + q
        THEN Finish(r, l, 400, <<"Cannot add more", db.stock[p] - existing>>) /\ db' = d1
        ELSE /\ db' = (IF existing > 0 THEN CartItemUpdate(d1, c, p, existing + q)
                       ELSE CartItemCreate(d1, c, p, q)).db
             /\ Finish(r, l, 200, <<"added to cart">>)
  /\ UNCHANGED <<nCancel, nStatus>>

\* Checkout under concurrency: two requests in flight, each a whole addToCart
\* or a createOrder whose calls interleave with the other request's
NextCheckout ==
  \/ ResponseSent
  \/ /\ last = NoResp
     /\ \/ \E r \in Slots, u \in Users, p \in Products, q \in Quantities :
              AddToCart(r, u, p, q)
        \/ \E r \in Slots, u \in Users, hasShipping \in BOOLEAN :
              CreateOrder_FindCart(r, u, hasShipping)
        \/ \E r \in Slots : CreateOrder_GenerateOrderNumber(r)
        \/ \E r \in Slots : CreateOrder_Transaction(r)

Spec == Init /\ [][NextCheckout]_vars

\* Carts across checkouts: the storefront with getCart, whose calls interleave
\* with the other request's
NextCarts ==
  \/ ResponseSent
  \/ /\ last = NoResp
     /\ \/ \E r \in Slots, u \in Users, p \in Products, q \in Quantities :
              AddToCart(r, u, p, q)
        \/ \E r \in Slots, u \in Users : GetCart_FindCart(r, u)
        \/ \E r \in Slots : GetCart_CreateCart(r)
        \/ \E r \in Slots : GetCart_Read(r)
        \/ \E r \in Slots, u \in Users, hasShipping \in BOOLEAN :
              CreateOrder_FindCart(r, u, hasShipping)
        \/ \E r \in Slots : CreateOrder_GenerateOrderNumber(r)
        \/ \E r \in Slots : CreateOrder_Transaction(r)

SpecCarts == Init /\ [][NextCarts]_vars

\* The carts the order lifecycle starts from: u1 holds one of each product,
\* u2 (the administrator) one A
FilledCarts == <<[p \in Products |-> 1], [p \in Products |-> IF p = "A" THEN 1 ELSE 0]>>

FilledDb ==
  [users |-> [u \in Users |-> "ACTIVE"],
   products |-> Products,
   stock |-> InitStock,
   isActive |-> [p \in Products |-> TRUE],
   carts |-> <<"u1", "u2">>, cartItems |-> FilledCarts, nextCartId |-> 3,
   orders |-> <<>>, tracking |-> <<>>, nextOrderId |-> 1,
   delivery |-> <<>>]

InitOrders ==
  /\ db = FilledDb
  /\ pc = [r \in Slots |-> "idle"]
  /\ loc = [r \in Slots |-> LocInit]
  /\ last = NoResp
  /\ nCancel = 0
  /\ nStatus = 0

\* The order lifecycle from carts that are already filled.  createOrder and
\* updateOrderStatus are served by the first slot; cancelOrder by either, so
\* that two cancellations, or a cancellation and another request, interleave.
\* The administrator sends no courier data with a status update.
OrderSlots == {1}

NextOrders ==
  \/ ResponseSent
  \/ /\ last = NoResp
     /\ \/ \E r \in OrderSlots, u \in Users, hasShipping \in BOOLEAN :
              CreateOrder_FindCart(r, u, hasShipping)
        \/ \E r \in OrderSlots : CreateOrder_GenerateOrderNumber(r)
        \/ \E r \in OrderSlots : CreateOrder_Transaction(r)
        \/ \E r \in Slots, u \in Users, idp \in IdParams, reason \in Reasons :
              CancelOrder_FindOrder(r, u, idp, reason)
        \/ \E r \in Slots : CancelOrder_Transaction(r)
        \/ \E r \in OrderSlots, u \in Users, idp \in IdParams,
              status \in Statuses \cup {"BOGUS"} :
              UpdateOrderStatus_FindOrder(r, u, idp, status, None, None)
        \/ \E r \in OrderSlots : UpdateOrderStatus_Transaction(r)

SpecOrders == InitOrders /\ [][NextOrders]_vars

\* The order lifecycle with accounts that can be deleted: the requests of
\* NextOrders behind protect (its lookup of the caller and the handler's first
\* read are one step), and deleteOwnAccount.
NextHistory ==
  \/ ResponseSent
  \/ /\ last = NoResp
     /\ \/ \E r \in Slots, u \in Users : ProtectRejects(r, u)
        \/ \E r \in Slots, u \in Users : DeleteOwnAccount(r, u)
        \/ \E r \in OrderSlots, u \in Users, hasShipping \in BOOLEAN :
              Protect(db, u) = 0 /\ CreateOrder_FindCart(r, u, hasShipping)
        \/ \E r \in OrderSlots : CreateOrder_GenerateOrderNumber(r)
        \/ \E r \in OrderSlots : CreateOrder_Transaction(r)
        \/ \E r \in Slots, u \in Users, idp \in IdParams, reason \in Reasons :
              Protect(db, u) = 0 /\ CancelOrder_FindOrder(r, u, idp, reason)
        \/ \E r \in Slots : CancelOrder_Transaction(r)
        \/ \E r \in OrderSlots, u \in Users, idp \in IdParams,
              status \in Statuses \cup {"BOGUS"} :
              Protect(db, u) = 0 /\ UpdateOrderStatus_FindOrder(r, u, idp, status, None, None)
        \/ \E r \in OrderSlots : UpdateOrderStatus_Transaction(r)

SpecHistory == InitOrders /\ [][NextHistory]_vars

\* The life of one order.  u1's checkout of the filled cart has committed
\* (PlacedDb), and the administrator may already have set its status once
\* (AfterStatusUpdate): the states InitStatus starts from are the ones these
\* transactions leave.
Committed(d, stmts) == Transaction(d, stmts, Len(stmts) + 1).db

PlacedDb ==
  Committed(FilledDb,
            CreateOrderStmts([LocInit EXCEPT !.user = "u1", !.cartId = 1,
                                             !.items = FilledCarts[1],
                                             !.orderNumber = generateOrderNumber(FilledDb)],
                             FilledDb))

AfterStatusUpdate(d, status) ==
  Committed(d, UpdateOrderStatusStmts([LocInit EXCEPT !.user = "u2", !.orderId = 1,
                                                      !.newStatus = status]))

InitStatus ==
  /\ db \in {PlacedDb} \cup {AfterStatusUpdate(PlacedDb, s) : s \in Statuses}
  /\ pc = [r \in Slots |-> "idle"]
  /\ loc = [r \in Slots |-> LocInit]
  /\ last = NoResp
  /\ nCancel = 0
  /\ nStatus = 0

TrackingNumbers == {None, "TN1"}
Couriers == {None, "TCS"}

\* updateOrderStatus with every input the administrator can send, and
\* cancelOrder, one request at a time
NextStatus ==
  \/ ResponseSent
  \/ /\ last = NoResp
     /\ \/ \E r \in OrderSlots, u \in Users, idp \in IdParams, reason \in Reasons :
              CancelOrder_FindOrder(r, u, idp, reason)
        \/ \E r \in OrderSlots : CancelOrder_Transaction(r)
        \/ \E r \in OrderSlots, u \in Users, idp \in IdParams,
              status \in Statuses \cup {"BOGUS"},
              trackingNumber \in TrackingNumbers, courierCompany \in Couriers :
              UpdateOrderStatus_FindOrder(r, u, idp, status, trackingNumber,
                                          courierCompany)
        \/ \E r \in OrderSlots : UpdateOrderStatus_Transaction(r)

SpecStatus == InitStatus /\ [][NextStatus]_vars

\* addToCart under concurrency: two requests in flight whose calls interleave,
\* on a store with enough stock for every addition (the stock check at the
\* item lookup bounds the quantities)
AmpleStock == [p \in Products |-> MaxStock]

InitAddToCart ==
  /\ db = [users |-> [u \in Users |-> "ACTIVE"],
           products |-> Products,
           stock |-> AmpleStock,
           isActive |-> [p \in Products |-> TRUE],
           carts |-> <<>>, cartItems |-> <<>>, nextCartId |-> 1,
           orders |-> <<>>, tracking |-> <<>>, nextOrderId |-> 1,
           delivery |-> <<>>]
  /\ pc = [r \in Slots |-> "idle"]
  /\ loc = [r \in Slots |-> LocInit]
  /\ last = NoResp
  /\ nCancel = 0
  /\ nStatus = 0

NextAddToCart ==
  \/ ResponseSent
  \/ /\ last = NoResp
     /\ \/ \E r \in Slots, u \in Users, p \in Products, q \in Quantities :
              AddToCart_FindProduct(r, u, p, q)
        \/ \E r \in Slots : AddToCart_FindCart(r)
        \/ \E r \in Slots : AddToCart_CreateCart(r)
        \/ \E r \in Slots : AddToCart_FindItem(r)
        \/ \E r \in Slots : AddToCart_Write(r)

SpecAddToCart == InitAddToCart /\ [][NextAddToCart]_vars

\* Accounts under concurrency: protected requests of every user next to the
\* administrator's blockUser, unblockUser and deleteUser and the user's
\* deleteOwnAccount, on a store where u1 has placed an order or has not
InitAuth ==
  /\ db \in {FilledDb, PlacedDb}
  /\ pc = [r \in Slots |-> "idle"]
  /\ loc = [r \in Slots |-> LocInit]
  /\ last = NoResp
  /\ nCancel = 0
  /\ nStatus = 0

NextAuth ==
  \/ ResponseSent
  \/ /\ last = NoResp
     /\ \/ \E r \in Slots, u \in Users : ProtectRejects(r, u)
        \/ \E r \in Slots, u \in Users : GetMe_Protect(r, u)
        \/ \E r \in Slots : GetMe_FindUser(r)
        \/ \E r \in Slots, a \in Users, t \in Users : BlockUser_FindUser(r, a, t)
        \/ \E r \in Slots : BlockUser_Update(r)
        \/ \E r \in Slots, a \in Users, t \in Users : UnblockUser_FindUser(r, a, t)
        \/ \E r \in Slots : UnblockUser_Update(r)
        \/ \E r \in Slots, a \in Users, t \in Users : DeleteUser_FindUser(r, a, t)
        \/ \E r \in Slots : DeleteUser_Deactivate(r)
        \/ \E r \in Slots : DeleteUser_Delete(r)
        \/ \E r \in Slots, u \in Users : DeleteOwnAccount(r, u)

SpecAuth == InitAuth /\ [][NextAuth]_vars

\* The administrator's product operations on a store with one placed order
\* (InitProducts is PlacedDb): the stock operations and deleteProduct, one
\* request at a time
InitProducts ==
  /\ db = PlacedDb
  /\ pc = [r \in Slots |-> "idle"]
  /\ loc = [r \in Slots |-> LocInit]
  /\ last = NoResp
  /\ nCancel = 0
  /\ nStatus = 0

NextProducts ==
  \/ ResponseSent
  \/ /\ last = NoResp
     /\ \/ \E r \in OrderSlots, u \in Users, p \in Products, q \in StockQuantities,
              operation \in Operations :
              updateStock_FindProduct(r, u, p, q, operation)
        \/ \E r \in OrderSlots, u \in Users, p \in Products, q \in StockQuantities,
              operation \in Operations, reason \in {None, "recount"} :
              updateInventoryWithHistory_FindProduct(r, u, p, q, operation, reason)
        \/ \E r \in OrderSlots : StockUpdate_Transaction(r)
        \/ \E r \in OrderSlots, u \in Users, updates \in BulkUpdates :
              bulkUpdateStock(r, u, updates)
        \/ \E r \in OrderSlots, u \in Users, p \in Products, force \in BOOLEAN :
              DeleteProduct_FindProduct(r, u, p, force)
        \/ \E r \in OrderSlots : DeleteProduct_OrderItems(r)
        \/ \E r \in OrderSlots : DeleteProduct_CartItems(r)
        \/ \E r \in OrderSlots : DeleteProduct_Delete(r)
        \/ \E r \in OrderSlots : DeleteProduct_Deactivate(r)

SpecProducts == InitProducts /\ [][NextProducts]_vars

\* Checkout next to the administrator's soft delete: createOrder and addToCart
\* of the users with filled carts, and deleteProduct without force, whose
\* calls interleave with the other request's
InitPurchase ==
  /\ db = FilledDb
  /\ pc = [r \in Slots |-> "idle"]
  /\ loc = [r \in Slots |-> LocInit]
  /\ last = NoResp
  /\ nCancel = 0
  /\ nStatus = 0

NextPurchase ==
  \/ ResponseSent
  \/ /\ last = NoResp
     /\ \/ \E r \in Slots, u \in Users, p \in Products, q \in Quantities :
              AddToCart(r, u, p, q)
        \/ \E r \in Slots, u \in Users, hasShipping \in BOOLEAN :
              CreateOrder_FindCart(r, u, hasShipping)
        \/ \E r \in Slots : CreateOrder_GenerateOrderNumber(r)
        \/ \E r \in Slots : CreateOrder_Transaction(r)
        \/ \E r \in Slots, u \in Users, p \in Products :
              DeleteProduct_FindProduct(r, u, p, FALSE)
        \/ \E r \in Slots : DeleteProduct_Deactivate(r)

SpecPurchase == InitPurchase /\ [][NextPurchase]_vars

\* The amounts of a checkout: the catalogue prices and the cart of u1 are
\* drawn from lists that put the subtotal below, at and above the
\* free-shipping threshold; one checkout at a time
ListPrices == [A : {156752, 250000}, B : {29744, 249999, 250000}]
DiscountPrices == [A : {<<>>, <<0>>, <<156752>>}, B : {<<>>, <<29744>>}]

PricedDb(price, discountPrice, qa, qb) ==
  [FilledDb EXCEPT !.stock = AmpleStock,
                   !.cartItems = <<[p \in Products |-> IF p = "A" THEN qa ELSE qb],
                                   [p \in Products |-> IF p = "A" THEN 1 ELSE 0]>>]
  @@ [price |-> price, discountPrice |-> discountPrice]

InitPricing ==
  /\ db \in {PricedDb(price, discountPrice, qa, qb) :
               price \in ListPrices, discountPrice \in DiscountPrices,
               qa \in 1..MaxStock, qb \in 0..1}
  /\ pc = [r \in Slots |-> "idle"]
  /\ loc = [r \in Slots |-> LocInit]
  /\ last = NoResp
  /\ nCancel = 0
  /\ nStatus = 0

NextPricing ==
  \/ ResponseSent
  \/ /\ last = NoResp
     /\ \E r \in OrderSlots, u \in Users : CreateOrder_Priced(r, u)

SpecPricing == InitPricing /\ [][NextPricing]_vars

\* Payments next to cancellations: the order of u1 is placed and has no
\* payment; processPayment, retryPayment and cancelOrder in flight together
InitPayments ==
  /\ db = PlacedDb @@ [payment |-> <<>>]
  /\ pc = [r \in Slots |-> "idle"]
  /\ loc = [r \in Slots |-> LocInit]
  /\ last = NoResp
  /\ nCancel = 0
  /\ nStatus = 0

NextPayments ==
  \/ ResponseSent
  \/ /\ last = NoResp
     /\ \/ \E r \in Slots, u \in Users, o \in OrderIds, method \in Methods :
              ProcessPayment_FindOrder(r, u, o, method)
        \/ \E r \in Slots : ProcessPayment_Upsert(r)
        \/ \E r \in Slots : ProcessPayment_Transaction(r)
        \/ \E r \in Slots, u \in Users, o \in OrderIds, method \in Methods \ {"BOGUS"} :
              RetryPayment_FindOrder(r, u, o, method)
        \/ \E r \in Slots : RetryPayment_Upsert(r)
        \/ \E r \in Slots : RetryPayment_Update(r)
        \/ \E r \in Slots, u \in Users, idp \in IdParams, reason \in Reasons :
              CancelOrder_FindOrder(r, u, idp, reason)
        \/ \E r \in Slots : CancelOrder_Transaction(r)

SpecPayments == InitPayments /\ [][NextPayments]_vars

\* Order numbers across deleted accounts, one request at a time: checkouts
\* of both users from filled carts, addToCart to fill a cart again, and
\* deleteOwnAccount, which removes its caller's orders
InitNumbering ==
  /\ db = [FilledDb EXCEPT !.stock = AmpleStock]
  /\ pc = [r \in Slots |-> "idle"]
  /\ loc = [r \in Slots |-> LocInit]
  /\ last = NoResp
  /\ nCancel = 0
  /\ nStatus = 0

NextNumbering ==
  \/ ResponseSent
  \/ /\ last = NoResp
     /\ \/ \E r \in OrderSlots, u \in Users, p \in Products, q \in Quantities :
              Protect(db, u) = 0 /\ AddToCart(r, u, p, q)
        \/ \E r \in OrderSlots, u \in Users, hasShipping \in BOOLEAN :
              Protect(db, u) = 0 /\ CreateOrder_FindCart(r, u, hasShipping)
        \/ \E r \in OrderSlots : CreateOrder_GenerateOrderNumber(r)
        \/ \E r \in OrderSlots : CreateOrder_Transaction(r)
        \/ \E r \in OrderSlots, u \in Users : DeleteOwnAccount(r, u)

SpecNumbering == InitNumbering /\ [][NextNumbering]_vars

\* The administrator's stock adjustments next to the order lifecycle: from
\* PlacedDb, updateStock and updateInventoryWithHistory interleave with
\* createOrder and cancelOrder
InitInventory ==
  /\ db = PlacedDb
  /\ pc = [r \in Slots |-> "idle"]
  /\ loc = [r \in Slots |-> LocInit]
  /\ last = NoResp
  /\ nCancel = 0
  /\ nStatus = 0

\* no stock adjustment is in flight: the administrator sends one at a time
NoStockUpdate == \A s \in Slots : pc[s] # "st_tx"

\* the quantities the administrator adds or subtracts here
Adjustments == {1}

NextInventory ==
  \/ ResponseSent
  \/ /\ last = NoResp
     /\ \/ \E r \in Slots, u \in Users, p \in Products, q \in Adjustments,
              operation \in {"add", "subtract"} :
              NoStockUpdate /\ updateStock_FindProduct(r, u, p, q, operation)
        \/ \E r \in Slots, u \in Users, p \in Products, q \in Adjustments,
              operation \in {"add", "subtract"}, reason \in {None, "recount"} :
              /\ NoStockUpdate
              /\ updateInventoryWithHistory_FindProduct(r, u, p, q, operation, reason)
        \/ \E r \in Slots : StockUpdate_Transaction(r)
        \/ \E r \in Slots, u \in Users, hasShipping \in BOOLEAN :
              CreateOrder_FindCart(r, u, hasShipping)
        \/ \E r \in Slots : CreateOrder_GenerateOrderNumber(r)
        \/ \E r \in Slots : CreateOrder_Transaction(r)
        \/ \E r \in Slots, u \in Users, idp \in IdParams, reason \in Reasons :
              CancelOrder_FindOrder(r, u, idp, reason)
        \/ \E r \in Slots : CancelOrder_Transaction(r)

SpecInventory == InitInventory /\ [][NextInventory]_vars

\* ================================================================= properties
\* the step in which slot r's transaction (at label) ends and its response is set
TxEnds(r, label) == pc[r] = label /\ pc'[r] = "idle"
\* a handler answers in the step that starts it (a rejection before any later call)
RejectedAtStart(h) == last = NoResp /\ last' # NoResp /\ last'.handler = h /\ pc' = pc
\* the active cart rows of user u in database d, and their lines
CartsOf(d, u) == {c \in DOMAIN d.carts : d.carts[c] = u}
HasNoCartLine(d, u) == \A c \in CartsOf(d, u) : \A p \in Products : d.cartItems[c][p] = 0
PlacedEvent == [status |-> "Order Placed",
                description |-> "Your order has been placed successfully",
                updatedBy |-> None]

\* all the writes of the createOrder that slot r is committing are in db'
C1_AllWritesPresent(r) ==
  LET l == loc[r]
      o == db.nextOrderId
  IN /\ o \notin DOMAIN db.orders
     /\ DOMAIN db'.orders = DOMAIN db.orders \cup {o}
     /\ db'.orders[o].userId = l.user
     /\ db'.orders[o].items = l.items
     /\ \A p \in Products : db'.stock[p] = db.stock[p] - l.items[p]
     /\ db'.tracking[o] = <<PlacedEvent>>
     /\ l.cartId \notin DOMAIN db'.carts
     /\ l.cartId \notin DOMAIN db'.cartItems

\* C1: createOrder is all-or-nothing.  The step that ends its transaction
\* either puts all of its writes into the database (order with one item per
\* cart line, every stock decrement, the 'Order Placed' event, the cart and its
\* items gone) and answers 201, or leaves the whole database as it was.
C1_CreateOrderAllOrNothing ==
  [][\A r \in Slots : TxEnds(r, "co_tx") =>
        IF last'.status = 201 THEN C1_AllWritesPresent(r) ELSE db' = db]_vars

\* C1 witness: a checkout whose transaction was aborted has answered 500 and
\* orders, stock and the caller's cart are as before the call
C1_Witness ==
  /\ last.handler = "createOrder" /\ last.status = 500
  /\ db.orders = <<>> /\ db.stock = InitStock
  /\ ~HasNoCartLine(db, last.user)

\* C2: a createOrder commits only if no line asks for more than the product's
\* stock at the moment the decrement is applied, and so the stock of no
\* product it sells drops below zero.
C2_CommitsOnlyWithinStock ==
  [][\A r \in Slots : (TxEnds(r, "co_tx") /\ last'.status = 201) =>
        /\ \A p \in Lines(loc[r].items) : loc[r].items[p] <= db.stock[p]
        /\ \A p \in Lines(loc[r].items) : db'.stock[p] >= 0]_vars

\* C3: after a successful createOrder the stock of each line's product is
\* lower by exactly the line's quantity, no other product's stock has changed,
\* and the new order is PENDING with one item per line of the cart the call
\* read, carrying that line's quantity.
C3_ExactDecrement ==
  [][\A r \in Slots : (TxEnds(r, "co_tx") /\ last'.status = 201) =>
        LET o == last'.orderId
            items == loc[r].items
        IN /\ o \in DOMAIN db'.orders /\ o \notin DOMAIN db.orders
           /\ db'.orders[o].status = "PENDING"
           /\ \A p \in Products : db'.orders[o].items[p] = items[p]
           /\ \A p \in Products : items[p] > 0 => db'.stock[p] = db.stock[p] - items[p]
           /\ \A p \in Products : items[p] = 0 => db'.stock[p] = db.stock[p]]_vars

\* C3 witness: the order {A: 2, B: 1} was placed from stock {A: 2, B: 1}
C3_Witness ==
  /\ last.handler = "createOrder" /\ last.status = 201
  /\ last.orderId \in DOMAIN db.orders
  /\ db.orders[last.orderId].items = [p \in Products |-> IF p = "A" THEN 2 ELSE 1]
  /\ db.stock = [p \in Products |-> 0]

\* C4: createOrder (with address and phone) by a user who has no active cart,
\* or whose active cart has no items, answers 400 'Your cart is empty', never
\* goes on to the order-number step, and leaves the database unchanged.
C4_EmptyCartRejected ==
  [][/\ \A r \in Slots : (pc[r] = "idle" /\ pc'[r] = "co_count") =>
           ~HasNoCartLine(db, loc'[r].user)
     /\ (RejectedAtStart("createOrder") /\ last'.hasShipping
           /\ HasNoCartLine(db, last'.user)) =>
           /\ last'.status = 400
           /\ last'.message = <<"Your cart is empty">>
           /\ db' = db]_vars

\* C4 witness: a user whose order was placed checks out again and gets
\* 'Your cart is empty'
C4_Witness ==
  /\ last.handler = "createOrder" /\ last.status = 400
  /\ last.message = <<"Your cart is empty">>
  /\ \E o \in DOMAIN db.orders : db.orders[o].userId = last.user

\* the lines of u's cart that ask for more than the stock
C5_Short(d, u) ==
  {p \in Products : \E c \in CartsOf(d, u) :
                        d.cartItems[c][p] > 0 /\ d.cartItems[c][p] > d.stock[p]}

\* C5: createOrder (with address and phone, all products active) by a user
\* whose cart has a line that exceeds the product's stock answers 400 and
\* states the available quantity of such a line, never goes on to the
\* order-number step, and leaves stock, orders and the cart unchanged.
C5_InsufficientStockRejected ==
  [][/\ \A r \in Slots : (pc[r] = "idle" /\ pc'[r] = "co_count") =>
           C5_Short(db, loc'[r].user) = {}
     /\ (RejectedAtStart("createOrder") /\ last'.hasShipping
           /\ C5_Short(db, last'.user) # {}
           /\ \A p \in Products : db.isActive[p]) =>
           /\ last'.status = 400
           /\ \E p \in C5_Short(db, last'.user) :
                 last'.message = <<"Insufficient stock", p, db.stock[p]>>
           /\ db' = db]_vars

\* C5 witness: a checkout was refused for a sold-out line while another line
\* of the same cart had enough stock; the cart still holds both lines
C5_Witness ==
  /\ last.handler = "createOrder" /\ last.status = 400
  /\ Len(last.message) = 3 /\ last.message[1] = "Insufficient stock"
  /\ \E c \in CartsOf(db, last.user) :
        /\ db.cartItems[c][last.message[2]] > db.stock[last.message[2]]
        /\ \E p \in Products : db.cartItems[c][p] > 0 /\ db.cartItems[c][p] <= db.stock[p]


Cancellable == {"PENDING", "CONFIRMED"}
\* a cancelOrder response is set in this step (a rejection or the transaction's end)
CancelAnswers == last = NoResp /\ last' # NoResp /\ last'.handler = "cancelOrder"

\* C6: when the owner cancels their own PENDING or CONFIRMED order the stock of
\* each line's product grows by exactly the line's quantity and the order
\* becomes CANCELLED; a cancelOrder by the owner on an order that is already
\* CANCELLED is refused with 400 (unless the database aborts the call) and
\* changes no product's stock.
C6_OwnerCancelRestoresOnce ==
  [][/\ \A r \in Slots :
          (TxEnds(r, "cx_tx") /\ last'.status = 200
             /\ db.orders[loc[r].orderId].userId = loc[r].user
             /\ db.orders[loc[r].orderId].status \in Cancellable) =>
          /\ db'.orders[loc[r].orderId].status = "CANCELLED"
          /\ \A p \in Products :
                db'.stock[p] = db.stock[p] + db.orders[loc[r].orderId].items[p]
     /\ (CancelAnswers /\ last'.orderId \in DOMAIN db.orders
           /\ db.orders[last'.orderId].userId = last'.user
           /\ db.orders[last'.orderId].status = "CANCELLED") =>
          /\ last'.status = 400 \/ last'.message = <<"P2034">>
          /\ db'.stock = db.stock]_vars

\* the answer the authorization rules give a caller for an order that exists
C7_Expected(order, u, reason) ==
  IF Role[u] # "ADMIN" /\ order.userId # u THEN 403
  ELSE IF Role[u] # "ADMIN" /\ order.status \notin Cancellable THEN 400
  ELSE IF Role[u] = "ADMIN" /\ order.userId # u /\ reason = None THEN 400
  ELSE 200

\* C7: cancelOrder's authorization, decided on the order as the call reads it.
\* A missing order gets 404; a caller who is neither owner nor admin gets 403;
\* a non-admin owner gets 400 unless the order is PENDING or CONFIRMED; an
\* admin who is not the owner and gives no reason gets 400; exactly the other
\* calls (an admin in any status among them) go on to the transaction, which
\* answers 200 unless the database aborts it.  Every rejected call leaves
\* status, stock and tracking history (the whole database) unchanged.
C7_CancelAuthorization ==
  [][/\ (CancelAnswers /\ last'.orderId # 0 /\ ~\E r \in Slots : TxEnds(r, "cx_tx")) =>
          LET id == last'.orderId
          IN /\ db' = db
             /\ IF id \notin DOMAIN db.orders
                THEN last'.status = 404
                ELSE LET want == C7_Expected(db.orders[id], last'.user, last'.reason)
                     IN want # 200 /\ last'.status = want
     /\ \A r \in Slots : (pc[r] = "idle" /\ pc'[r] = "cx_tx") =>
          /\ loc'[r].orderId \in DOMAIN db.orders
          /\ C7_Expected(db.orders[loc'[r].orderId], loc'[r].user, loc'[r].reason) = 200
     /\ \A r \in Slots : TxEnds(r, "cx_tx") =>
          /\ last'.status \in {200, 500}
          /\ last'.status = 500 => db' = db]_vars

\* C7 witness: the administrator asked to cancel another user's order without
\* a reason and got 400
C7_Witness ==
  /\ last.handler = "cancelOrder" /\ last.status = 400
  /\ Role[last.user] = "ADMIN" /\ last.reason = None
  /\ last.orderId \in DOMAIN db.orders
  /\ db.orders[last.orderId].userId # last.user

\* all the writes of the cancelOrder that slot r is committing are in db'
C8_AllWritesPresent(r) ==
  LET l == loc[r]
      id == l.orderId
      why == IF l.reason # None THEN l.reason ELSE "Cancelled by customer"
      note == IF l.reason # None THEN l.reason ELSE "Order cancelled by customer"
  IN /\ db'.orders[id].status = "CANCELLED"
     /\ db'.orders[id].cancelledAt
     /\ db'.orders[id].cancelReason = why
     /\ \A p \in Products : db'.stock[p] = db.stock[p] + l.items[p]
     /\ l.items = db.orders[id].items
     /\ db'.tracking[id] = Append(db.tracking[id],
                                  [status |-> "Cancelled", description |-> note,
                                   updatedBy |-> l.user])
     /\ \A o \in DOMAIN db.orders \ {id} :
           db'.orders[o] = db.orders[o] /\ db'.tracking[o] = db.tracking[o]

\* C8: cancellation's unit of work is atomic.  The step that ends cancelOrder's
\* transaction either commits all of it (status CANCELLED with timestamp and
\* reason, the stock increment of every order item, one 'Cancelled' tracking
\* event) and answers 200, or leaves the whole database as it was.
C8_CancelAllOrNothing ==
  [][\A r \in Slots : TxEnds(r, "cx_tx") =>
        IF last'.status = 200 THEN C8_AllWritesPresent(r) ELSE db' = db]_vars

\* C8 witness: the administrator has cancelled u1's PROCESSING order with the
\* reason 'damaged in warehouse'; the reason is stored, the stock is back and
\* the event is the third of the order's history
C8_Witness ==
  /\ last.handler = "cancelOrder" /\ last.status = 200
  /\ Role[last.user] = "ADMIN" /\ last.reason = "damaged in warehouse"
  /\ db.orders[last.orderId].userId = "u1"
  /\ db.orders[last.orderId].status = "CANCELLED"
  /\ db.orders[last.orderId].cancelReason = "damaged in warehouse"
  /\ Len(db.tracking[last.orderId]) = 3
  /\ db.tracking[last.orderId][2].status = "PROCESSING"
  /\ db.tracking[last.orderId][3].status = "Cancelled"
  /\ db.stock = InitStock

\* C9: after a successful createOrder the cart it was made from and the cart's
\* items no longer exist and the user has no active cart; a getCart by a user
\* without an active cart goes on to create one, and the cart it creates is a
\* new row of that user with no items.
C9_CartGoneThenFresh ==
  [][/\ \A r \in Slots : (TxEnds(r, "co_tx") /\ last'.status = 201) =>
           /\ loc[r].cartId \in DOMAIN db.carts
           /\ loc[r].cartId \notin DOMAIN db'.carts
           /\ loc[r].cartId \notin DOMAIN db'.cartItems
           /\ CartsOf(db', loc[r].user) = {}
     /\ \A r \in Slots : (pc[r] = "idle" /\ pc'[r] = "gc_read") =>
           CartsOf(db, loc'[r].user) # {}
     /\ \A r \in Slots : (pc[r] = "gc_createCart" /\ pc'[r] = "gc_read") =>
           LET c == loc'[r].cartId
           IN /\ c \notin DOMAIN db.carts
              /\ \A s \in Slots : pc[s] = "co_tx" => loc[s].cartId # c
              /\ CartsOf(db', loc[r].user) = {c}
              /\ \A p \in Products : db'.cartItems[c][p] = 0]_vars

\* C9 witness: a user whose order was placed has fetched the cart and holds a
\* second, empty cart
C9_Witness ==
  /\ last.handler = "getCart" /\ last.status = 200
  /\ \E o \in DOMAIN db.orders : db.orders[o].userId = last.user
  /\ \E c \in CartsOf(db, last.user) : c > 1 /\ HasNoCartLine(db, last.user)

\* C10: no two orders carry the same order number, and a createOrder whose
\* number an order already carries does not commit: its transaction fails and
\* leaves carts, stock and tracking history (the whole database) unchanged.
C10_OrderNumbersUnique ==
  [][/\ \A o1, o2 \in DOMAIN db'.orders :
           o1 # o2 => db'.orders[o1].orderNumber # db'.orders[o2].orderNumber
     /\ \A r \in Slots :
           (TxEnds(r, "co_tx")
              /\ \E o \in DOMAIN db.orders : db.orders[o].orderNumber = loc[r].orderNumber) =>
           last'.status # 201 /\ db' = db]_vars

\* C10 witness: two checkouts counted the orders before either committed; one
\* has committed and the other has just failed on the unique index
C10_Witness ==
  /\ last.handler = "createOrder" /\ last.message = <<"P2002">>
  /\ Cardinality(DOMAIN db.orders) = 1
  /\ ~HasNoCartLine(db, last.user)

\* C11: a createOrder whose transaction fails for any reason (the order-number
\* unique index among them) answers with a 500-class status, while the
\* rejections before the transaction (no address, empty cart, inactive
\* product, insufficient stock) answer with a 400-class status.
C11_TransactionFailureIs500 ==
  [][/\ \A r \in Slots : (TxEnds(r, "co_tx") /\ last'.status # 201) =>
           last'.status \in 500..599
     /\ RejectedAtStart("createOrder") => last'.status \in 400..499]_vars

\* the step in which a transaction of handler h commits in slot r (at label)
\* and the notification e-mail that follows it fails
EmailFailsAfterCommit(r, label) == TxEnds(r, label) /\ last'.emailFailed

\* C12: a failure of the notification e-mail never fails or undoes the primary
\* operation.  When sendEmail throws after the transaction has committed,
\* createOrder still answers 201 and cancelOrder and updateOrderStatus still
\* answer 200, and the order, stock and tracking changes of the transaction
\* are in the database.
C12_EmailFailureSwallowed ==
  [][\A r \in Slots :
        /\ EmailFailsAfterCommit(r, "co_tx") =>
              last'.status = 201 /\ C1_AllWritesPresent(r)
        /\ EmailFailsAfterCommit(r, "cx_tx") =>
              last'.status = 200 /\ C8_AllWritesPresent(r)
        /\ EmailFailsAfterCommit(r, "us_tx") =>
              /\ last'.status = 200
              /\ db'.orders[loc[r].orderId].status = loc[r].newStatus
              /\ Len(db'.tracking[loc[r].orderId]) = Len(db.tracking[loc[r].orderId]) + 1]_vars

\* C12 witness: an order was cancelled, the database holds the cancellation
\* and the restored stock, and the e-mail about it could not be sent
C12_Witness ==
  /\ last.handler = "cancelOrder" /\ last.emailFailed /\ last.status = 200
  /\ db.orders[last.orderId].status = "CANCELLED"
  /\ db.stock = InitStock

\* the place of a status in the chain PENDING, CONFIRMED, PROCESSING, SHIPPED, DELIVERED
ChainPlace(s) ==
  CASE s = "PENDING" -> 1 [] s = "CONFIRMED" -> 2 [] s = "PROCESSING" -> 3
    [] s = "SHIPPED" -> 4 [] s = "DELIVERED" -> 5 [] OTHER -> 6

\* a change of status that stays, moves forward along the chain, or diverts to CANCELLED
MovesForward(old, new) ==
  \/ new = old
  \/ new = "CANCELLED"
  \/ old # "CANCELLED" /\ ChainPlace(new) > ChainPlace(old)

\* C13: the status of an order only ever moves forward along PENDING,
\* CONFIRMED, PROCESSING, SHIPPED, DELIVERED or is diverted to CANCELLED: no
\* step of updateOrderStatus or cancelOrder gives an order an earlier status.
C13_StatusOnlyMovesForward ==
  [][\A o \in DOMAIN db.orders :
        o \in DOMAIN db'.orders =>
           MovesForward(db.orders[o].status, db'.orders[o].status)]_vars

\* the fields of an order that updateOrderStatus to status s writes
C14_Written(s) ==
  {"status"} \cup (IF s = "CONFIRMED" THEN {"confirmedAt"} ELSE {})
             \cup (IF s = "SHIPPED" THEN {"shippedAt"} ELSE {})
             \cup (IF s = "DELIVERED" THEN {"deliveredAt"} ELSE {})

\* all the writes of the updateOrderStatus that slot r is committing are in db'
C14_AllWritesPresent(r) ==
  LET l == loc[r]
      id == l.orderId
      shipping == l.newStatus = "SHIPPED" \/ l.trackingNumber # None
                     \/ l.courierCompany # None
  IN /\ db'.orders[id].status = l.newStatus
     /\ \A f \in C14_Written(l.newStatus) \ {"status"} : db'.orders[id][f] = TRUE
     /\ \A f \in DOMAIN db.orders[id] \ C14_Written(l.newStatus) :
           db'.orders[id][f] = db.orders[id][f]
     /\ db'.tracking[id] = Append(db.tracking[id],
                                  [status |-> l.newStatus,
                                   description |-> <<"Order status updated to", l.newStatus>>,
                                   updatedBy |-> l.user])
     /\ IF shipping
        THEN /\ DOMAIN db'.delivery = DOMAIN db.delivery \cup {id}
             /\ \A o \in DOMAIN db.delivery \ {id} : db'.delivery[o] = db.delivery[o]
             /\ l.trackingNumber # None => db'.delivery[id].trackingNumber = l.trackingNumber
             /\ l.courierCompany # None => db'.delivery[id].courierCompany = l.courierCompany
             /\ l.newStatus = "SHIPPED" => db'.delivery[id].status = "SHIPPED"
        ELSE db'.delivery = db.delivery
     /\ \A o \in DOMAIN db.orders \ {id} :
           db'.orders[o] = db.orders[o] /\ db'.tracking[o] = db.tracking[o]

\* C14: updateOrderStatus is permissive and atomic.  The administrator's call
\* is refused only for an unparsable id (400), a status outside the six names
\* (400) or a missing order (404), never for the order's current status, and a
\* refusal changes nothing; the step that ends its transaction either commits
\* the new status, the milestone timestamp of CONFIRMED/SHIPPED/DELIVERED, one
\* appended tracking event and, when the new status is SHIPPED or a tracking
\* number or courier is given, the order's delivery record, answering 200, or
\* leaves the database as it was.
C14_UpdateStatusPermissiveAtomic ==
  [][/\ (RejectedAtStart("updateOrderStatus") /\ Role[last'.user] = "ADMIN") =>
           /\ db' = db
           /\ IF last'.orderId = 0 THEN last'.status = 400
              ELSE IF last'.newStatus \notin Statuses THEN last'.status = 400
              ELSE last'.orderId \notin DOMAIN db.orders /\ last'.status = 404
     /\ \A r \in Slots : (pc[r] = "idle" /\ pc'[r] = "us_tx") =>
           loc'[r].newStatus \in Statuses /\ loc'[r].orderId \in DOMAIN db.orders
     /\ \A r \in Slots : TxEnds(r, "us_tx") =>
           IF last'.status = 200 THEN C14_AllWritesPresent(r) ELSE db' = db]_vars

\* C14 witness: the administrator has set a DELIVERED order back to PENDING
\* and given a tracking number; the order is PENDING, keeps its delivery
\* timestamp, has one more tracking event and a delivery record with the number
C14_Witness ==
  /\ last.handler = "updateOrderStatus" /\ last.status = 200
  /\ last.newStatus = "PENDING"
  /\ db.orders[last.orderId].status = "PENDING"
  /\ db.orders[last.orderId].deliveredAt
  /\ Len(db.tracking[last.orderId]) = 3
  /\ db.tracking[last.orderId][2].status = "DELIVERED"
  /\ db.tracking[last.orderId][3].status = "PENDING"
  /\ last.orderId \in DOMAIN db.delivery
  /\ db.delivery[last.orderId].trackingNumber = "TN1"

\* history s is the beginning of history t
IsPrefix(s, t) == Len(s) <= Len(t) /\ \A i \in 1..Len(s) : t[i] = s[i]

\* the committing step of slot r adds exactly one event to order id's history
\* and touches no other order's history
AddsOneEvent(id) ==
  /\ Len(db'.tracking[id]) = (IF id \in DOMAIN db.tracking THEN Len(db.tracking[id]) ELSE 0) + 1
  /\ \A o \in DOMAIN db.tracking \ {id} : db'.tracking[o] = db.tracking[o]

\* C15: an order's tracking history is append-only.  While the order exists
\* no step changes or removes an event already written (the old history is
\* the beginning of the new one), a history exists only for an existing
\* order, and each createOrder (201), cancelOrder (200) and updateOrderStatus
\* (200) adds exactly one event to its order's history and none to another's.
C15_TrackingAppendOnly ==
  [][/\ \A o \in DOMAIN db.orders \cap DOMAIN db'.orders :
           IsPrefix(db.tracking[o], db'.tracking[o])
     /\ DOMAIN db'.tracking = DOMAIN db'.orders
     /\ \A r \in Slots :
           /\ (TxEnds(r, "co_tx") /\ last'.status = 201) => AddsOneEvent(last'.orderId)
           /\ (TxEnds(r, "cx_tx") /\ last'.status = 200) => AddsOneEvent(loc[r].orderId)
           /\ (TxEnds(r, "us_tx") /\ last'.status = 200) => AddsOneEvent(loc[r].orderId)]_vars

\* C15 witness: the second order was placed, shipped and cancelled and its
\* history is these three events in that order; the first order is gone with
\* the account of the user who placed it
C15_Witness ==
  /\ last.handler = "cancelOrder" /\ last.status = 200 /\ last.orderId = 2
  /\ Len(db.tracking[2]) = 3
  /\ db.tracking[2][1].status = "Order Placed"
  /\ db.tracking[2][2].status = "SHIPPED"
  /\ db.tracking[2][3].status = "Cancelled"
  /\ 1 \notin DOMAIN db.orders

\* C16: an existing order's item list is immutable: no step of an operation
\* on products (the stock operations, deleteProduct with or without
\* force=true) changes or removes the items of an order that exists.
C16_OrderItemsImmutable ==
  [][\A o \in DOMAIN db.orders :
       /\ o \in DOMAIN db'.orders
       /\ db'.orders[o].items = db.orders[o].items]_vars

\* C19: product stock is non-negative in every reachable state, whatever
\* stock operations the administrator has sent.
C19_StockNonNegative == \A p \in Products : db.stock[p] >= 0

\* C17: in every reachable state each user has at most one active cart, also
\* when two first accesses of the same user run getOrCreateCart's
\* find-then-create concurrently.
C17_OneActiveCartPerUser == \A u \in Users : Cardinality(ActiveCarts(db, u)) <= 1

\* two getCart requests of one user both found no cart; the first created
\* it and the second's create was refused by the unique index
C17_Witness ==
  /\ last.handler = "getCart"
  /\ last.message = <<"P2002">>
  /\ Cardinality(ActiveCarts(db, last.user)) = 1

\* C18: adding a product to a cart increments the quantity of its one row:
\* every addToCart that succeeds leaves the row of its product with the
\* quantity it had when the call wrote, grown by the call's quantity, so two
\* successful calls with q1 and q2, sequential or concurrent, grow it by
\* q1 + q2.
C18_AddToCartIncrements ==
  [][\A r \in Slots :
       (pc[r] = "ac_write" /\ pc'[r] = "idle" /\ last'.status = 200)
       => LET c == loc[r].cartId
              p == loc[r].productId
          IN /\ c \in DOMAIN db'.cartItems
             /\ db'.cartItems[c][p] =
                  (IF c \in DOMAIN db.cartItems THEN db.cartItems[c][p] ELSE 0)
                  + loc[r].quantity]_vars

\* C20: every request to a protected route is validated against the user
\* table when it arrives: a request of a user who no longer exists is answered
\* 401 by protect, one of a BLOCKED or INACTIVE user 403, and only a request
\* of an ACTIVE user reaches a handler; a BLOCKED user becomes ACTIVE again
\* only by the write of unblockUser.  So from the commit of blockUser until
\* the commit of unblockUser no request of that user that arrives reaches a
\* handler.
C20_Arrives(u) ==
  /\ last = NoResp
  /\ \/ \E r \in Slots : pc[r] = "idle" /\ pc'[r] # "idle" /\ loc'[r].user = u
     \/ pc' = pc /\ last' # NoResp /\ last'.user = u
C20_RejectedWith(u, code) ==
  /\ pc' = pc
  /\ last'.handler = "protect"
  /\ last'.user = u
  /\ last'.status = code
  /\ db' = db
C20_ReachesHandler(u) ==
  \/ \E r \in Slots : pc[r] = "idle" /\ pc'[r] # "idle" /\ loc'[r].user = u
  \/ pc' = pc /\ last' # NoResp /\ last'.user = u /\ last'.handler # "protect"
C20_ProtectValidatesPerRequest ==
  [][/\ \A u \in Users :
          C20_Arrives(u)
          => IF u \notin DOMAIN db.users THEN C20_RejectedWith(u, 401)
             ELSE IF db.users[u] \in {"BLOCKED", "INACTIVE"} THEN C20_RejectedWith(u, 403)
             ELSE C20_ReachesHandler(u)
     /\ \A u \in DOMAIN db.users :
          (db.users[u] = "BLOCKED" /\ u \in DOMAIN db'.users /\ db'.users[u] = "ACTIVE")
          => \E r \in Slots : /\ pc[r] = "ub_update"
                              /\ pc'[r] = "idle"
                              /\ loc[r].target = u]_vars

\* after blockUser committed, a request of the blocked user has been
\* answered 403 by protect
C20_Witness ==
  /\ last.handler = "protect"
  /\ last.status = 403
  /\ last.user \in DOMAIN db.users
  /\ db.users[last.user] = "BLOCKED"

\* C21: inactive products are not purchasable: no createOrder commits an
\* order that contains a product which is inactive at the moment the order
\* commits.
C21_NoInactiveProductOrdered ==
  [][\A r \in Slots :
       (TxEnds(r, "co_tx") /\ db'.nextOrderId # db.nextOrderId)
       => \A p \in Lines(loc[r].items) : db.isActive[p]]_vars

\* C22: for every committed order, each item's unit price is the product's
\* discount price if one is set and otherwise its list price, the subtotal is
\* the sum over the lines of unit price x quantity, the shipping cost is 0
\* when the subtotal is at least 5000 (exactly 5000 included) and 200
\* otherwise, the tax is 0 and the total is subtotal + shipping cost
\* (amounts in cents).
C22_LineSum(o) ==
  LET rows == db.orders[o].rows
      at(p) == IF p \in DOMAIN rows THEN rows[p].unitPrice * rows[p].quantity ELSE 0
  IN at("A") + at("B")
C22_AmountsExact ==
  \A o \in DOMAIN db.orders :
    "rows" \in DOMAIN db.orders[o] =>
      LET order == db.orders[o]
      IN /\ \A p \in DOMAIN order.rows :
              /\ order.rows[p].unitPrice =
                   (IF db.discountPrice[p] # <<>> THEN db.discountPrice[p][1]
                    ELSE db.price[p])
              /\ order.rows[p].quantity = order.items[p]
         /\ order.subtotal = C22_LineSum(o)
         /\ order.shippingCost = (IF order.subtotal >= 500000 THEN 0 ELSE 20000)
         /\ order.taxAmount = 0
         /\ order.totalAmount = order.subtotal + order.shippingCost

\* C23: an order's stock is restored at most once, over any sequence or
\* interleaving of cancelOrder calls on it.  Orders and cancellations are the
\* only writers of the stock here, every order took its quantities from the
\* stock, so with at most one restoration per order no product's stock ever
\* exceeds the stock before the orders were placed.
C23_RestoredAtMostOnce == \A p \in Products : db.stock[p] <= InitStock[p]

\* C24: every operation that sets an order to CANCELLED (cancelOrder, and
\* updateOrderStatus with status CANCELLED) adds each item's quantity to its
\* product's stock in the step that changes the status.
C24_CancelledReturnsStock ==
  [][\A o \in DOMAIN db.orders :
       (/\ o \in DOMAIN db'.orders
        /\ db.orders[o].status # "CANCELLED"
        /\ db'.orders[o].status = "CANCELLED")
       => \A p \in Products : db'.stock[p] = db.stock[p] + db.orders[o].items[p]]_vars

\* C25: a cancelled order cannot be paid or revived through payment: while an
\* order is CANCELLED no step of processPayment or retryPayment creates or
\* changes its payment record or sets its status to CONFIRMED, also when the
\* cancellation committed after the payment handler read the order; and a
\* payment request of the owner that finds the order CANCELLED is answered 400.
C25_CancelledOrderNotPaid ==
  [][\A o \in DOMAIN db.orders :
       db.orders[o].status = "CANCELLED"
       => /\ db'.orders[o].status # "CONFIRMED"
          /\ (o \in DOMAIN db'.payment) = (o \in DOMAIN db.payment)
          /\ o \in DOMAIN db.payment => db'.payment[o] = db.payment[o]
          /\ \A r \in Slots, h \in {"processPayment", "retryPayment"} :
               (/\ pc[r] = "idle"
                /\ \/ pc'[r] # "idle" /\ loc'[r].handler = h /\ loc'[r].orderId = o
                   \/ RejectedAtStart(h) /\ last'.orderId = o
                      /\ last'.user = db.orders[o].userId
                      /\ last'.message # <<"Invalid payment method">>)
               => RejectedAtStart(h) /\ last'.status = 400]_vars

\* C26: a cart is converted into at most one order, also when the same user
\* submits createOrder twice concurrently for it: a createOrder commits only
\* while the cart it read still exists, its commit removes that cart and takes
\* each line's quantity from the stock once, and no later cart gets the
\* number of a cart that existed before.
C26_CartOrderedAtMostOnce ==
  [][/\ \A r \in Slots :
          (TxEnds(r, "co_tx") /\ db'.nextOrderId # db.nextOrderId)
          => /\ loc[r].cartId \in DOMAIN db.carts
             /\ loc[r].cartId \notin DOMAIN db'.carts
             /\ DOMAIN db'.orders = DOMAIN db.orders \cup {db.nextOrderId}
             /\ \A p \in Products : db'.stock[p] = db.stock[p] - loc[r].items[p]
     /\ \A c \in DOMAIN db'.carts \ DOMAIN db.carts : c >= db.nextCartId
     /\ db'.nextCartId >= db.nextCartId]_vars

\* two checkouts of one cart were in flight; one committed and the other has
\* just been refused because the cart's row is gone
C26_Witness ==
  /\ last.handler = "createOrder"
  /\ last.message = <<"P2025">>
  /\ \E o \in DOMAIN db.orders : db.orders[o].userId = last.user

\* C27: with no concurrent checkouts, order-number generation never blocks a
\* valid checkout: whatever operations committed before (deleteOwnAccount's
\* removal of earlier orders included), a createOrder that passed its checks
\* on the cart commits, unless the database itself aborts the transaction.
C27_NumberingNeverBlocksCheckout ==
  [][\A r \in Slots :
       TxEnds(r, "co_tx") => last'.status = 201 \/ last'.message = <<"P2034">>]_vars

\* C28: an 'add' or 'subtract' of q through updateStock or
\* updateInventoryWithHistory that commits changes the product's stock by
\* exactly q from its value at the commit, and the previousStock and newStock
\* it logs are the stock immediately before and after the update, also when a
\* createOrder or cancelOrder on the product committed after the handler's read.
C28_AdjustmentNotLost ==
  [][\A r \in Slots :
       (TxEnds(r, "st_tx") /\ last'.status = 200
          /\ loc[r].operation \in {"add", "subtract"}) =>
         LET p == loc[r].productId
             q == IF loc[r].operation = "add" THEN loc[r].quantity
                                              ELSE -loc[r].quantity
         IN /\ db'.stock[p] = db.stock[p] + q
            /\ loc[r].stockRead = db.stock[p]
            /\ loc[r].newStock = db'.stock[p]]_vars

\* C29: public signup cannot create an administrator: an account signup
\* creates has role USER whatever the body holds, and an account becomes an
\* administrator only in the update of an updateUserRole request, a route
\* behind authorize('ADMIN').
C29_SignupCreatesNoAdmin ==
  [][\A u \in UserIds :
       (u \in DOMAIN db'.role /\ db'.role[u] = "ADMIN"
          /\ (u \in DOMAIN db.role => db.role[u] # "ADMIN")) =>
         \E r \in Slots : TxEnds(r, "ur_update") /\ loc[r].target = u]_vars

\* C30: a password-reset token is single-use and time-limited: a
\* resetPassword succeeds, and a password changes, only with the token that
\* forgotPassword issued last for the user and that is still stored for it,
\* and only before the ten minutes from its issue are over; after a
\* successful reset or a newer forgotPassword the older token gets a 400 and
\* changes no password.
C30_Succeeds(r) == TxEnds(r, "rs_update") /\ last'.status = 200
C30_TokenInForce(r) ==
  /\ db.resetPasswordToken[loc[r].target] = hashResetToken(loc[r].token)
  /\ db.now < db.resetPasswordExpire[loc[r].target]
C30_ResetTokenSingleUse ==
  [][/\ \A r \in Slots : C30_Succeeds(r) => C30_TokenInForce(r)
     /\ db'.password # db.password =>
          \E r \in Slots : C30_Succeeds(r) /\ C30_TokenInForce(r)]_vars

====
